---- MODULE Spec2Model ----
(***************************************************************************)
(* Verification model of radical.utils.                                    *)
(*                                                                         *)
(* Part 1: profile.combine_profiles (src/src/radical/utils/profile.py).    *)
(*                                                                         *)
(* Representation:                                                         *)
(*  - `profs` is the dict handed to combine_profiles, represented by the   *)
(*    sequence of its values in the dict's iteration order (both loops of  *)
(*    the function iterate the unmodified dict, hence in the same order);  *)
(*    a profile name is the position in that sequence.                     *)
(*  - a row is a record of the fields combine_profiles reads: TIME, EVENT, *)
(*    MSG.  Times are integers (seconds).                                  *)
(*  - a MSG string is represented by the list of its ':'-separated parts,  *)
(*    i.e. by the value of msg.split(':'); the empty string is <<"">>.     *)
(*    Numeric parts are integers.                                          *)
(*  - rows are python list objects which are mutated in place and shared   *)
(*    between `profs` and `p_glob`: `p_glob` holds references              *)
(*    <<profile, index>> into `profs`.                                     *)
(*  - python's None for t_min is <<>>, a value v is <<v>>.                 *)
(*                                                                         *)
(* Part 2: profile.Profiler, used by several threads.                      *)
(*  - the .prof file is the sequence of the strings handed to              *)
(*    handle.write (chunks); a chunk holds the cells of its text between   *)
(*    the commas and whether it ends the line.  One write call appends     *)
(*    its string as a whole (the file object serialises write calls).      *)
(*  - a string cell is the list of its ':'-separated parts, as in part 1;  *)
(*    None is <<>>.  Times count units of 0.00005 s, so that '%.4f'        *)
(*    rounds to even values.                                               *)
(*  - a method call is unfolded into the steps at which other threads can  *)
(*    interleave: entry of prof, test of the handle, write, flush, close   *)
(*    of the handle, release of the handle.                                *)
(*                                                                         *)
(* Part 3: profile.read_profiles.                                          *)
(***************************************************************************)
EXTENDS Integers, Sequences, FiniteSets, TLC

\* ------------------------------------------------------------------------
\* bounds of the model
MaxStreams == 2
MaxRows    == 2
MaxThreads == 2
MaxCalls   == 3
MaxFiles   == 2
MaxFileRows == 2
MaxTime    == 4
MaxIdCalls == 3
MaxLockCalls == 4

\* ------------------------------------------------------------------------
\* program constants
NTP_DIFF_WARN_LIMIT == 1

\* ------------------------------------------------------------------------
\* input domain

EmptyStr == <<"">>

\* well-formed sync descriptors host:ip:t_sys:t_ntp:mode
ValidMsgs ==
    { <<"h1", "ipA", 12, 10, "ntp">>,
      <<"h1", "ipA", 13, 10, "ntp">>,
      <<"h1", "ipA", 15, 10, "ntp">>,
      <<"h1", "ipB", 13, 10, "ntp">>,
      <<"h1", "ipA", 10, 10, "sys">> }

\* missing or garbled descriptors: '', 'garbled', 'h1:ipA'
BadMsgs == { EmptyStr, <<"garbled">>, <<"h1", "ipA">> }

FirstTimes == {0, 10}

FirstRows ==
    [TIME : FirstTimes, EVENT : {"sync_abs"}, MSG : ValidMsgs]
      \cup [TIME : {10}, EVENT : {"sync_abs"}, MSG : BadMsgs]

OtherRows ==
    { [TIME |-> 10, EVENT |-> "ev",  MSG |-> EmptyStr],
      [TIME |-> 11, EVENT |-> "END", MSG |-> EmptyStr] }

Tails == UNION { [1..n -> OtherRows] : n \in 0..(MaxRows - 1) }

Streams == { <<>> } \cup { <<f>> \o t : f \in FirstRows, t \in Tails }

\* ------------------------------------------------------------------------
\* state of one call of combine_profiles

VARIABLES
    profs,      \* the argument: profiles, rows mutated in place
    profs0,     \* the argument as it was passed (history)
    pc,         \* "sync", "correct", "done", "raised"
    i,          \* position of the running loop in the dict iteration
    t_host,     \* time offset per host
    t_min,      \* absolute starting point of profiled session
    c_end,      \* counter for profile closing tag
    accuracy,   \* max uncorrected clock deviation
    p_glob,     \* global profile (references to rows)
    unsynced,   \* hosts without offset
    warned,     \* profiles reported as 'not correctly closed'
    err         \* exception raised, "" if none

combineVars == << profs, profs0, pc, i, t_host, t_min, c_end, accuracy,
                  p_glob, unsynced, warned, err >>

\* state of one Profiler instance and of the threads using it
VARIABLES
    constructed, \* __init__ has run
    enabled,     \* self._enabled
    handle,      \* self._handle: "unset", "open", "closed", "none"
    file,        \* content of the .prof file: chunks written
    synced,      \* number of chunks on disk after the last fsync
    stderr,      \* number of 'profile write error' reports
    clock,       \* time.time()
    syscalls,    \* what __init__ has done: "clock", "makedirs", "open"
    todo,        \* per thread: remaining steps of its running call
    cur,         \* per thread: its running call (index of calls), 0 if none
    calls        \* the calls made so far (history)

profilerVars == << constructed, enabled, handle, file, synced, stderr, clock,
                   syscalls, todo, cur, calls >>

\* state of one call of read_profiles
VARIABLES
    profiles,    \* argument: the files, each the rows csv.reader yields
    sid,         \* argument: None or the session id
    efilter,     \* argument: the pairs (field, pattern) of the filter
    ret,         \* ret[prof], for the files opened so far
    skipped,     \* number of header rows skipped
    rpc,         \* position: "open", "rows", "raised", "returned"
    fidx,        \* the file being read
    ridx,        \* the row being read
    stdout,      \* what was printed
    raised,      \* the exception that left the call, "" if none
    result       \* None, or the value returned

readerVars == << profiles, sid, efilter, ret, skipped, rpc, fidx, ridx,
                 stdout, raised, result >>

\* the environment of the process
VARIABLES
    environ      \* os.environ: per variable, <<>> if unset, else << value >>

envVars == << environ >>

\* state of one Heartbeat, its watcher thread and one wait_startup call
VARIABLES
    hb_timeout,  \* self._timeout (self._interval is 1)
    hb_term_cb,  \* whether a term_cb was given
    hclock,      \* time.time()
    tstamps,     \* self._tstamps: per uid, <<>> if absent, else << time >>
    term,        \* self._term is set
    wpc,         \* position of the watcher thread
    w_wake,      \* end of the watcher's sleep
    w_now,       \* `now` of the watcher
    w_uids,      \* the uids the watcher has yet to check in this turn
    w_uid,       \* the uid the watcher found timed out
    w_ret,       \* `ret` of the watcher: "False", "True", "None"
    cb_uid,      \* argument of the last term_cb call, "" if none
    killed,      \* os.kill was called
    beaten,      \* the uids beat() was called for
    hb_last,     \* time of start(), then of the last beat()
    handled,     \* term_cb or kill happened since then
    turns,       \* the watcher has finished a turn of its loop
    spc,         \* position of the wait_startup call
    s_uids,      \* its uids
    s_timeout,   \* its timeout: <<>> for None, else << seconds >>
    s_start,     \* its start
    s_result     \* what it returned: <<>> for None, else << list >>

hbVars == << hb_timeout, hb_term_cb, hclock, tstamps, term, wpc, w_wake, w_now,
             w_uids, w_uid, w_ret, cb_uid, killed, beaten, hb_last, handled,
             turns, spc, s_uids, s_timeout, s_start, s_result >>

\* state of the module ids: the registry and the threads calling it
VARIABLES
    registry,    \* _id_registry._registry: per prefix, <<>> or << counter >>
    rlock,       \* owner of _id_registry._rlock, 0 if free
    ipc,         \* per thread: position in its call
    icall,       \* per thread: its running call
    iret,        \* per thread: `ret` of get_counter
    served,      \* the get_counter calls in the order served: prefix, value
    ids,         \* the IDs generate_id returned in ID_SIMPLE mode
    resets,      \* number of reset_id_counters calls
    ncalls       \* number of calls made

idVars == << registry, rlock, ipc, icall, iret, served, ids, resets, ncalls >>

\* state of a Lockable-decorated class, its instances and the threads using
\* them
VARIABLES
    l_owner,     \* owner of cls._rlock, 0 if free
    l_depth,     \* recursion level of cls._rlock
    locked,      \* per instance: its attribute `locked`
    held,        \* per instance: levels of the lock taken through it
    lpc,         \* per thread: position in its call
    lcall,       \* per thread: its running call
    ltmp,        \* per thread: the value it loaded for `+=` or `-=`
    nlock,       \* per instance: lock / __enter__ calls that returned
    nunlock,     \* per instance: unlock / __exit__ calls that returned
    lcalls       \* number of calls made

lockVars == << l_owner, l_depth, locked, held, lpc, lcall, ltmp, nlock,
               nunlock, lcalls >>

vars == << combineVars, profilerVars, readerVars, envVars, hbVars, idVars,
           lockVars >>

\* ------------------------------------------------------------------------
\* helpers

Max(a, b) == IF a >= b THEN a ELSE b
Min(a, b) == IF a <= b THEN a ELSE b
Abs(a)    == IF a >= 0 THEN a ELSE -a

Front(s) == SubSeq(s, 1, Len(s) - 1)
Last(s)  == s[Len(s)]

\* `not msg`
IsEmptyStr(msg) == Len(msg) = 1 /\ msg[1] = ""

\* `':' in msg`
HasColon(msg) == Len(msg) > 1

\* host, ip, t_sys, t_ntp, t_mode = msg.split(':') succeeds
Unpacks5(msg) == Len(msg) = 5

HostIdHostOnly(msg) == << msg[1], "" >>

\* host_id = '%s:%s' % (host, ip)
HostId(msg) == << msg[1], msg[2] >>

\* python truth value of t_min: None and 0.0 are false
Truthy(t) == t # <<>> /\ t[1] # 0

\* if t_min: t_min = min(t_min, t_prof)  else: t_min = t_prof
UpdTMin(t, t_prof) == IF Truthy(t) THEN << Min(t[1], t_prof) >> ELSE << t_prof >>

IsSysNever(t_mode) == FALSE

\* t_mode == 'sys'
IsSys(t_mode) == t_mode = "sys"

ConflictNever(th, host_id, t_off) == FALSE

\* host_id in t_host and t_host[host_id] != t_off
Conflict(th, host_id, t_off) == host_id \in DOMAIN th /\ th[host_id] # t_off

\* t_host[host_id] = t_off
SetItem(th, host_id, t_off) ==
    [ h \in (DOMAIN th) \cup {host_id} |-> IF h = host_id THEN t_off ELSE th[h] ]

EmptyDict == [ h \in {} |-> 0 ]

\* ------------------------------------------------------------------------
\* the sort of line 440: sorted(p_glob[:], key=lambda k: k[TIME]).
\* python's sort is stable; a stable insertion sort yields the same list.

\* the key of a reference: the TIME field of the row it refers to
Key(P, ref) == P[ref[1]][ref[2]].TIME

RECURSIVE InsertBefore(_, _, _)
InsertBefore(s, x, P) ==
    IF s = <<>> THEN << x >>
    ELSE IF Key(P, Last(s)) < Key(P, x) THEN Append(s, x)
    ELSE Append(InsertBefore(Front(s), x, P), Last(s))

RECURSIVE InsertStable(_, _, _)
\* insert x behind every element whose key is not larger
InsertStable(s, x, P) ==
    IF s = <<>> THEN << x >>
    ELSE IF Key(P, Last(s)) <= Key(P, x) THEN Append(s, x)
    ELSE Append(InsertStable(Front(s), x, P), Last(s))

RECURSIVE sortedUnstable(_, _)
sortedUnstable(s, P) ==
    IF s = <<>> THEN <<>>
    ELSE InsertBefore(sortedUnstable(Front(s), P), Last(s), P)

RECURSIVE sorted(_, _)
sorted(s, P) ==
    IF s = <<>> THEN <<>>
    ELSE InsertStable(sorted(Front(s), P), Last(s), P)

\* ------------------------------------------------------------------------
\* combine_profiles, on a frame of its local variables

Frame0(P) ==
    [ profs    |-> P,
      t_host   |-> EmptyDict,
      t_min    |-> <<>>,
      c_end    |-> 0,
      accuracy |-> 0,
      p_glob   |-> <<>>,
      unsynced |-> {},
      warned   |-> {},
      err      |-> "" ]

\* one iteration of the first loop (lines 350-393), on profile k
SyncIter(f, k) ==
    LET prof == f.profs[k] IN
    IF Len(prof) = 0 THEN f
    ELSE
    LET msg == prof[1].MSG IN
    IF IsEmptyStr(msg) \/ ~HasColon(msg) THEN f
    ELSE IF ~Unpacks5(msg) THEN [f EXCEPT !.err = "ValueError"]
    ELSE
    LET t_prof  == prof[1].TIME
        host_id == HostId(msg)
        f1      == [f EXCEPT !.t_min = UpdTMin(f.t_min, t_prof)]
    IN
    IF IsSys(msg[5]) THEN f1
    ELSE
    LET t_off == msg[3] - msg[4] IN
    IF Conflict(f.t_host, host_id, t_off)
    THEN LET diff == t_off - f.t_host[host_id]
             f2   == [f1 EXCEPT !.accuracy = Max(f.accuracy, diff)]
         IN  \* the warning's format expression raises TypeError
             IF diff > NTP_DIFF_WARN_LIMIT
             THEN [f2 EXCEPT !.err = "TypeError"]
             ELSE f2
    ELSE [f1 EXCEPT !.t_host = SetItem(f.t_host, host_id, t_off)]

\* row[TIME] -= t_min ; row[TIME] -= t_off
CorrectRow(row, tm, t_off) == [row EXCEPT !.TIME = (@ - tm) - t_off]

\* number of rows of prof with EVENT == 'END'
CountEnd(prof) == Cardinality({ j \in 1..Len(prof) : prof[j].EVENT = "END" })

\* one iteration of the second loop (lines 399-437), on profile k
CorrectIter(f, k) ==
    LET prof == f.profs[k] IN
    IF Len(prof) = 0 THEN f
    ELSE
    LET msg == prof[1].MSG IN
    IF IsEmptyStr(msg) THEN f
    ELSE IF ~Unpacks5(msg) THEN [f EXCEPT !.err = "ValueError"]
    ELSE IF f.t_min = <<>> THEN [f EXCEPT !.err = "TypeError"]
    ELSE
    LET host_id == HostId(msg)
        known   == host_id \in DOMAIN f.t_host
        t_off   == IF known THEN f.t_host[host_id] ELSE 0
        c       == f.c_end + CountEnd(prof)
    IN
    [f EXCEPT
       !.unsynced = IF known THEN @ ELSE @ \cup {host_id},
       !.profs[k] = [ j \in 1..Len(prof) |->
                        CorrectRow(prof[j], f.t_min[1], t_off) ],
       !.c_end    = c,
       !.p_glob   = @ \o [ j \in 1..Len(prof) |-> << k, j >> ],
       !.warned   = IF c = 0 THEN @ \cup {k} ELSE @ ]

\* line 440
SortIter(f) == [f EXCEPT !.p_glob = sorted(f.p_glob, f.profs)]

RECURSIVE RunSync(_, _)
RunSync(f, k) ==
    IF f.err # "" \/ k > Len(f.profs) THEN f
    ELSE RunSync(SyncIter(f, k), k + 1)

RECURSIVE RunCorrect(_, _)
RunCorrect(f, k) ==
    IF f.err # "" \/ k > Len(f.profs) THEN f
    ELSE RunCorrect(CorrectIter(f, k), k + 1)

\* the whole call: the frame at return, or at the raise (err # "")
combine_profiles(P) ==
    LET f1 == RunSync(Frame0(P), 1)
        f2 == RunCorrect(f1, 1)
    IN  IF f2.err # "" THEN f2 ELSE SortIter(f2)

\* ------------------------------------------------------------------------
\* the state machine

Frame ==
    [ profs    |-> profs,
      t_host   |-> t_host,
      t_min    |-> t_min,
      c_end    |-> c_end,
      accuracy |-> accuracy,
      p_glob   |-> p_glob,
      unsynced |-> unsynced,
      warned   |-> warned,
      err      |-> err ]

SetFrame(f) ==
    /\ profs'    = f.profs
    /\ t_host'   = f.t_host
    /\ t_min'    = f.t_min
    /\ c_end'    = f.c_end
    /\ accuracy' = f.accuracy
    /\ p_glob'   = f.p_glob
    /\ unsynced' = f.unsynced
    /\ warned'   = f.warned
    /\ err'      = f.err

\* the variables of os.environ that matter, as their '_'-separated elements
EnvVars ==
    { << "RADICAL", "PROFILE" >>,
      << "RADICAL", "UTILS", "PROFILE" >>,
      << "RADICAL", "UTILS", "TEST", "PROFILE" >>,
      << "RADICAL", "PILOT", "PROFILE" >> }

EnvValues == { "", "1", "true", "True", "TRUE", "false", "False", "FALSE", "0" }

\* no variable is set; variable k is set to v
EnvUnset      == [ k \in EnvVars |-> <<>> ]
EnvWith(k, v) == [ EnvUnset EXCEPT ![k] = << v >> ]

\* an environment that matters to no Profiler
EnvIdle == environ = EnvUnset

\* the uids of the heartbeat senders
Uids == { "default", "a" }

\* no Heartbeat exists
HbIdle ==
    /\ hb_timeout = 1
    /\ hb_term_cb = FALSE
    /\ hclock     = 1
    /\ tstamps    = [ u \in Uids |-> <<>> ]
    /\ term       = FALSE
    /\ wpc        = "none"
    /\ w_wake     = 0
    /\ w_now      = 0
    /\ w_uids     = <<>>
    /\ w_uid      = ""
    /\ w_ret      = "False"
    /\ cb_uid     = ""
    /\ killed     = FALSE
    /\ beaten     = {}
    /\ hb_last    = 0
    /\ handled    = FALSE
    /\ turns      = FALSE
    /\ spc        = "idle"
    /\ s_uids     = <<>>
    /\ s_timeout  = <<>>
    /\ s_start    = 0
    /\ s_result   = <<>>

\* the instances of the decorated class
Insts == { "a", "b" }

\* the class is decorated, its instances exist, nothing was called: `locked`
\* is the class attribute 0
LockIdle ==
    /\ l_owner = 0
    /\ l_depth = 0
    /\ locked  = [ o \in Insts |-> 0 ]
    /\ held    = [ o \in Insts |-> 0 ]
    /\ lpc     = [ t \in 1..MaxThreads |-> "idle" ]
    /\ lcall   = [ t \in 1..MaxThreads |-> <<>> ]
    /\ ltmp    = [ t \in 1..MaxThreads |-> 0 ]
    /\ nlock   = [ o \in Insts |-> 0 ]
    /\ nunlock = [ o \in Insts |-> 0 ]
    /\ lcalls  = 0

\* the keys of the registry: prefixes without '%', as their characters
IdKeys == { << "i" >>, << "t" >> }

\* the module ids is loaded, nothing was called
IdIdle ==
    /\ registry = [ p \in IdKeys |-> <<>> ]
    /\ rlock    = 0
    /\ ipc      = [ t \in 1..MaxThreads |-> "idle" ]
    /\ icall    = [ t \in 1..MaxThreads |-> <<>> ]
    /\ iret     = [ t \in 1..MaxThreads |-> 0 ]
    /\ served   = <<>>
    /\ ids      = <<>>
    /\ resets   = 0
    /\ ncalls   = 0

\* no Profiler exists
ProfilerIdle ==
    /\ constructed = FALSE
    /\ enabled     = FALSE
    /\ handle      = "unset"
    /\ file        = <<>>
    /\ synced      = 0
    /\ stderr      = 0
    /\ clock       = 0
    /\ syscalls    = {}
    /\ todo        = [ t \in 1..MaxThreads |-> <<>> ]
    /\ cur         = [ t \in 1..MaxThreads |-> 0 ]
    /\ calls       = <<>>

\* no call of read_profiles is running
ReaderIdle ==
    /\ profiles = <<>>
    /\ sid      = <<>>
    /\ efilter  = {}
    /\ ret      = <<>>
    /\ skipped  = 0
    /\ rpc      = "idle"
    /\ fidx     = 1
    /\ ridx     = 1
    /\ stdout   = <<>>
    /\ raised   = ""
    /\ result   = <<>>

InitCombine ==
    /\ profs0 \in [1..MaxStreams -> Streams]
    /\ profs    = profs0
    /\ pc       = "sync"
    /\ i        = 1
    /\ t_host   = EmptyDict
    /\ t_min    = <<>>
    /\ c_end    = 0
    /\ accuracy = 0
    /\ p_glob   = <<>>
    /\ unsynced = {}
    /\ warned   = {}
    /\ err      = ""
    /\ ProfilerIdle
    /\ ReaderIdle
    /\ EnvIdle
    /\ HbIdle
    /\ IdIdle
    /\ LockIdle

\* first loop, one profile
SyncStep ==
    /\ pc = "sync"
    /\ i <= Len(profs)
    /\ LET f == SyncIter(Frame, i) IN
         /\ SetFrame(f)
         /\ pc' = IF f.err # "" THEN "raised" ELSE "sync"
    /\ i' = i + 1
    /\ UNCHANGED profs0
    /\ UNCHANGED << profilerVars, readerVars, envVars, hbVars, idVars, lockVars >>

\* first loop exhausted: unsynced = set(), second loop starts
SyncDone ==
    /\ pc = "sync"
    /\ i > Len(profs)
    /\ pc' = "correct"
    /\ i' = 1
    /\ unsynced' = {}
    /\ UNCHANGED << profs, profs0, t_host, t_min, c_end, accuracy, p_glob,
                    warned, err >>
    /\ UNCHANGED << profilerVars, readerVars, envVars, hbVars, idVars, lockVars >>

\* second loop, one profile
CorrectStep ==
    /\ pc = "correct"
    /\ i <= Len(profs)
    /\ LET f == CorrectIter(Frame, i) IN
         /\ SetFrame(f)
         /\ pc' = IF f.err # "" THEN "raised" ELSE "correct"
    /\ i' = i + 1
    /\ UNCHANGED profs0
    /\ UNCHANGED << profilerVars, readerVars, envVars, hbVars, idVars, lockVars >>

\* second loop exhausted: sort by time and return
SortAndReturn ==
    /\ pc = "correct"
    /\ i > Len(profs)
    /\ SetFrame(SortIter(Frame))
    /\ pc' = "done"
    /\ UNCHANGED << i, profs0 >>
    /\ UNCHANGED << profilerVars, readerVars, envVars, hbVars, idVars, lockVars >>

NextCombine == SyncStep \/ SyncDone \/ CorrectStep \/ SortAndReturn

SpecCombine == InitCombine /\ [][NextCombine]_vars

TypeOK ==
    /\ pc \in {"sync", "correct", "done", "raised"}
    /\ err \in {"", "ValueError", "TypeError"}
    /\ (pc = "raised") <=> (err # "")
    /\ accuracy \in Int
    /\ c_end \in Nat

\* ------------------------------------------------------------------------
\* vocabulary of the properties, on the argument as passed (profs0)

Names == 1..Len(profs0)

Rows(p) == 1..Len(profs0[p])

NonEmpty(p) == Len(profs0[p]) > 0

\* the message of the stream's first record
Msg0(p) == profs0[p][1].MSG

\* the first record carries a descriptor host:ip:local:reference:mode
WellFormed(p) == NonEmpty(p) /\ Len(Msg0(p)) = 5

\* the first record's descriptor is missing or garbled
Garbled(p) == NonEmpty(p) /\ Len(Msg0(p)) # 5

\* (host, ip) of a well-formed stream
Host0(p) == << Msg0(p)[1], Msg0(p)[2] >>

IsNtp(p) == WellFormed(p) /\ Msg0(p)[5] = "ntp"

IsSysStream(p) == WellFormed(p) /\ Msg0(p)[5] = "sys"

\* offset reported by an ntp stream: local reading - reference reading
Off0(p) == Msg0(p)[3] - Msg0(p)[4]

\* the first ntp stream of host h in iteration order
FirstNtp(h) ==
    CHOOSE p \in Names :
        /\ IsNtp(p) /\ Host0(p) = h
        /\ \A q \in Names : (IsNtp(q) /\ Host0(q) = h) => p <= q

HasNtp(h) == \E p \in Names : IsNtp(p) /\ Host0(p) = h

\* every stream is empty or carries a well-formed descriptor
AllWellFormed == \A p \in Names : ~Garbled(p)

\* the ntp streams of every host report the same offset
OffsetsAgree ==
    \A p, q \in Names :
        (IsNtp(p) /\ IsNtp(q) /\ Host0(p) = Host0(q)) => Off0(p) = Off0(q)

MinOfSet(S) == CHOOSE x \in S : \A y \in S : x <= y
MaxOfSet(S) == CHOOSE x \in S : \A y \in S : x >= y

RangeOf(s) == { s[k] : k \in 1..Len(s) }

\* every record of stream p was corrected by t_min and offset off
CorrectedBy(p, off) ==
    /\ t_min # <<>>
    /\ \A j \in Rows(p) :
          profs[p][j].TIME = profs0[p][j].TIME - t_min[1] - off

\* every record of stream p is in the global profile
Merged(p) == \A j \in Rows(p) : << p, j >> \in RangeOf(p_glob)

\* the records of the streams with a well-formed descriptor
MergedRefs ==
    UNION { { << p, j >> : j \in Rows(p) } : p \in { q \in Names : WellFormed(q) } }

\* the offset the claims name for stream p: the kept offset of its host,
\* 0 when the host has no entry (or the stream names no host)
OffsetOf(p) ==
    IF WellFormed(p) /\ Host0(p) \in DOMAIN t_host
    THEN t_host[Host0(p)] ELSE 0

\* ------------------------------------------------------------------------
\* C1: after combine_profiles returns, every record of every non-empty
\* input stream carries time = record.time - t_min - offset(host of the
\* stream), offset being the kept offset of the host and 0 without entry;
\* stated for calls in which some stream set t_min.  (Violated: a stream
\* whose first record has an empty message is skipped by the second loop
\* and keeps its times, see C9.)
C1_EveryRecordCorrected ==
    (pc = "done" /\ t_min # <<>>) =>
        \A p \in Names : NonEmpty(p) => CorrectedBy(p, OffsetOf(p))

\* C2: once the first loop is through, t_min is the minimum of the times
\* of the first records of all non-empty streams, stated here for inputs
\* whose streams all carry a well-formed descriptor.  (Violated: a t_min
\* of 0.0 is false in `if t_min:` and is overwritten by the next stream.)
C2_TMinIsMinimum ==
    (pc \in {"correct", "done"} /\ AllWellFormed) =>
        LET S == { p \in Names : NonEmpty(p) } IN
        IF S = {} THEN t_min = <<>>
        ELSE t_min = << MinOfSet({ profs0[p][1].TIME : p \in S }) >>

\* C3: the returned timeline holds the corrected records, ascending by
\* corrected time, and records of one stream with equal corrected time
\* keep their order in the stream.
C3_SortedStable ==
    pc = "done" =>
        /\ RangeOf(p_glob) = MergedRefs
        /\ Len(p_glob) = Cardinality(MergedRefs)
        /\ \A a, b \in 1..Len(p_glob) :
             a < b => Key(profs, p_glob[a]) <= Key(profs, p_glob[b])
        /\ \A a, b \in 1..Len(p_glob) :
             ( /\ a < b
               /\ p_glob[a][1] = p_glob[b][1]
               /\ Key(profs, p_glob[a]) = Key(profs, p_glob[b]) )
             => p_glob[a][2] < p_glob[b][2]

\* C3 witness: a returned timeline in which two records of one stream tie
\* and the sort moved a record of a later stream before one of an earlier
C3_Witness ==
    /\ pc = "done"
    /\ \E a, b \in 1..Len(p_glob) :
          /\ a < b
          /\ p_glob[a][1] = p_glob[b][1]
          /\ Key(profs, p_glob[a]) = Key(profs, p_glob[b])
    /\ \E a, b \in 1..Len(p_glob) :
          a < b /\ p_glob[a][1] > p_glob[b][1]

\* ------------------------------------------------------------------------
\* permutations of the iteration order of the input

Perms ==
    { pi \in [Names -> Names] : \A a, b \in Names : pi[a] = pi[b] => a = b }

\* the input iterated in order pi: position k holds stream pi[k]
Permute(P, pi) == [ k \in 1..Len(P) |-> P[pi[k]] ]

\* C4: the merge does not depend on the iteration order of the streams;
\* stated here for the corrected times and the accuracy, on inputs whose
\* streams all carry a well-formed descriptor and agree on the offsets of
\* each host: every permutation of the input returns, with the same
\* corrected time for every record and the same accuracy.  (Violated:
\* t_min depends on the iteration order when a first record has time 0.0,
\* see C2.)
C4_OrderIndependent ==
    (pc = "done" /\ AllWellFormed /\ OffsetsAgree) =>
        \A pi \in Perms :
            LET g == combine_profiles(Permute(profs0, pi)) IN
            /\ g.err = ""
            /\ g.accuracy = accuracy
            /\ \A k \in Names : \A j \in Rows(pi[k]) :
                  g.profs[k][j].TIME = profs[pi[k]][j].TIME

Disagreeing ==
    { p \in Names :
        IsNtp(p) /\ p # FirstNtp(Host0(p))
                 /\ Off0(p) # Off0(FirstNtp(Host0(p))) }

\* C6: the returned accuracy is >= 0 and is the maximum of
\* |new_offset - kept_offset| over the later disagreeing estimates.
\* (Violated: the code takes the signed difference new - kept, so an
\* estimate smaller than the kept one leaves accuracy unchanged.)
C6_AccuracyIsMaxAbsDiff ==
    pc = "done" =>
        /\ accuracy >= 0
        /\ accuracy = MaxOfSet({0} \cup
              { Abs(Off0(p) - Off0(FirstNtp(Host0(p)))) : p \in Disagreeing })

\* C7: when the ntp streams of every host report the same offset, the
\* returned accuracy is 0.
C7_AgreeingAccuracyZero ==
    (pc = "done" /\ OffsetsAgree) => accuracy = 0

\* C7 witness: returned with accuracy 0 from an input in which two ntp
\* streams of one host report the same offset
C7_Witness ==
    /\ pc = "done"
    /\ OffsetsAgree
    /\ accuracy = 0
    /\ \E p, q \in Names : p # q /\ IsNtp(p) /\ IsNtp(q) /\ Host0(p) = Host0(q)

\* C8: a sys stream adds no offset entry (every entry stems from an ntp
\* stream of that host); at return a stream whose host has no entry is
\* corrected with 0 and its host is in the unsynced set, and a sys stream
\* whose host has an entry is corrected with that entry.
C8_SysAndUnsynced ==
    /\ \A h \in DOMAIN t_host : HasNtp(h)
    /\ pc = "done" =>
          \A p \in Names : WellFormed(p) =>
              /\ ~HasNtp(Host0(p)) =>
                    /\ Host0(p) \notin DOMAIN t_host
                    /\ CorrectedBy(p, 0)
                    /\ Host0(p) \in unsynced
              /\ (IsSysStream(p) /\ HasNtp(Host0(p))) =>
                    /\ Host0(p) \in DOMAIN t_host
                    /\ CorrectedBy(p, t_host[Host0(p)])

\* C8 witness: returned, a sys stream whose host got a non-zero offset from
\* an ntp stream and was corrected with it
C8_Witness ==
    /\ pc = "done"
    /\ \E p, q \in Names :
          /\ IsSysStream(p) /\ IsNtp(q) /\ Host0(p) = Host0(q)
          /\ t_host[Host0(p)] # 0
          /\ CorrectedBy(p, t_host[Host0(p)])

\* C8, second case reached: returned, a sys stream whose host has no entry
\* while another host has one
C8_UnsyncedReached ==
    /\ pc = "done"
    /\ \E p, q \in Names :
          /\ IsSysStream(p) /\ IsNtp(q) /\ Host0(p) # Host0(q)
          /\ Host0(p) \in unsynced
          /\ CorrectedBy(p, 0)

\* C9: a stream whose first record carries a missing or garbled descriptor
\* makes combine_profiles raise no error, and at return its records are in
\* the timeline, corrected with a zero offset.  (Violated: 'h1:ipA' raises
\* ValueError in the first loop, 'garbled' in the second, and a stream with
\* an empty message is left out of the timeline.)
C9_GarbledIsUnsynced ==
    \A p \in Names : Garbled(p) =>
        /\ pc # "raised"
        /\ pc = "done" =>
              /\ Merged(p)
              /\ t_min # <<>> => CorrectedBy(p, 0)

\* C10: END records are counted per stream; stated for the streams with a
\* well-formed descriptor: at return such a stream is flagged exactly if
\* it holds no END record, and its records are merged.  (Violated: c_end
\* is one counter for all streams, so no stream iterated after the first
\* END record is flagged.)
C10_UnclosedFlagged ==
    pc = "done" =>
        \A p \in Names : WellFormed(p) =>
            /\ (p \in warned) <=> (CountEnd(profs0[p]) = 0)
            /\ Merged(p)

\* C11: combine_profiles never mutates its input: at return every record
\* of every source stream has the field values it was passed with.
\* (Violated: `row[TIME] -= t_min; row[TIME] -= t_off` updates the rows of
\* the caller's lists in place, so a second call corrects them again.)
C11_InputNotMutated ==
    pc = "done" => profs = profs0

\* ========================================================================
\* Part 2: Profiler

Threads == 1..MaxThreads

\* a string without ':' ; python's None
Str(x) == << x >>
None   == <<>>

\* the recorder's name, the host it runs on
ProfName == Str("p")
HostName == "h1"
HostIp   == "ipA"

\* how far the ntp server is ahead of the local clock
NtpAhead == 4

\* Profiler.fields
Fields == << "time", "comp", "uid", "state", "event", "msg" >>

\* '%.4f' % t : t counts 0.00005 s, the text holds multiples of 0.0001 s
FmtTime(t) == 2 * ((t + 1) \div 2)

\* '%s:%s' % (a, b)
Colon(a, b) == a \o b

\* _timestamp_init (lines 189-216), with the clock before the call
TimestampInit(ntpOk, c) ==
    IF ntpOk
    THEN [ ts_sys |-> (c + (c + 2)) \div 2, ts_ntp |-> c + 1 + NtpAhead,
           mode   |-> "ntp", clock |-> c + 3 ]
    ELSE [ ts_sys |-> c, ts_ntp |-> c, mode |-> "sys", clock |-> c + 1 ]

\* a string handed to one handle.write call
Chunk(kind, cells, nl, cid) ==
    [ kind |-> kind, cells |-> cells, nl |-> nl, by |-> cid ]

NoChunk == Chunk("none", <<>>, FALSE, 0)

\* "#%s\n" % (','.join(Profiler.fields))   (line 105)
HeaderChunk == Chunk("header", Fields, TRUE, 0)

\* the sync_abs line written by __init__ (lines 106-112)
SyncChunk(ts, ti) ==
    Chunk("row",
          << FmtTime(ts), Colon(ProfName, EmptyStr), EmptyStr, EmptyStr,
             Str("sync_abs"),
             << HostName, HostIp, ti.ts_sys, ti.ts_ntp, ti.mode >> >>,
          TRUE, 0)

\* "%.4f,%s,%s,%s,%s,%s\n" % (timestamp, event, comp, uid, state, msg)
RowCells(ts, event, comp, uid, state, msg) ==
    << FmtTime(ts), event, comp, uid, state, msg >>

WriteChunksSplit(cells, cid) ==
    << Chunk("row", SubSeq(cells, 1, 3), FALSE, cid),
       Chunk("row", SubSeq(cells, 4, 6), TRUE, cid) >>

\* the write calls made for one row (lines 180-181): one, the whole line
WriteChunks(cells, cid) == << Chunk("row", cells, TRUE, cid) >>

\* arguments of prof; uid is None, a string or a list of strings
UNone    == [ tag |-> "none", v |-> <<>> ]
UStr(x)  == [ tag |-> "str",  v |-> x ]
UList(l) == [ tag |-> "list", v |-> l ]

Args(event, uid, state, msg, timestamp, comp) ==
    [ event |-> event, uid |-> uid, state |-> state, msg |-> msg,
      timestamp |-> timestamp, comp |-> comp ]

\* the calls of prof made by the threads
ProfArgs ==
    { Args(Str("ev"), UNone, None, None, None, None),
      Args(Str("ev"), UStr(Str("u1")), Str("S"), Str("m"), << 5 >>, Str("c")),
      Args(Str("ev"), UList(<< Str("u1"), Str("u2") >>), None, None, None, None),
      Args(Str("ev"), UList(<< Str("u2"), Str("u1") >>), Str("S"), Str("m"),
           << 5 >>, Str("c")),
      Args(Str("ev"), UList(<<>>), None, None, None, None) }

\* prof("END"), prof("flush")
EndArgs   == Args(Str("END"),   UNone, None, None, None, None)
FlushArgs == Args(Str("flush"), UNone, None, None, None, None)

\* a step of a running call
Instr(op, a, cid, chunk) == [ op |-> op, a |-> a, cid |-> cid, chunk |-> chunk ]

ExpandUidNoList(uid) ==
    IF uid.tag = "none" THEN << EmptyStr >>
    ELSE IF uid.tag = "list" THEN << Str("list") >>
    ELSE << uid.v >>

\* the uids a prof call writes rows for (lines 165, 172-176)
ExpandUid(uid) ==
    IF uid.tag = "none" THEN << EmptyStr >>
    ELSE IF uid.tag = "list" THEN uid.v
    ELSE << uid.v >>

\* `if x is None: x = d`
Default(x, d) == IF x = None THEN d ELSE x

RECURSIVE Flatten(_)
Flatten(ss) == IF ss = <<>> THEN <<>> ELSE Head(ss) \o Flatten(Tail(ss))

\* the write steps of one row: the handle is tested, then written to
RowSteps(cells, cid) ==
    LET cs == WriteChunks(cells, cid) IN
    [ k \in 1..Len(cs) |->
        Instr(IF k = 1 THEN "test" ELSE "write", EndArgs, cid, cs[k]) ]

\* entry of prof(a) at clock `now` (lines 163-176): the steps it leaves to
\* do and the clock afterwards
ProfEntry(a, cid, en, now) ==
    IF ~en THEN [ steps |-> <<>>, clock |-> now ]
    ELSE
    LET ts    == IF a.timestamp = None THEN now ELSE a.timestamp[1]
        state == Default(a.state, EmptyStr)
        msg   == Default(a.msg, EmptyStr)
        comp  == Default(a.comp, ProfName)
        uids  == ExpandUid(a.uid)
    IN  [ steps |-> Flatten([ k \in 1..Len(uids) |->
                       RowSteps(RowCells(ts, a.event, comp, uids[k], state, msg),
                                cid) ]),
          clock |-> IF a.timestamp = None THEN now + 1 ELSE now ]

\* `if self._handle:` -- a file object is true, open or closed
HandleTruthy(h) == h \in {"open", "closed"}

FlushBodyUnguarded(en, cid) ==
    << Instr("prof", FlushArgs, cid, NoChunk), Instr("flush", FlushArgs, cid, NoChunk) >>

\* flush() (lines 146-155)
FlushBody(en, cid) ==
    IF ~en THEN <<>>
    ELSE << Instr("prof",  FlushArgs, cid, NoChunk),
            Instr("flush", FlushArgs, cid, NoChunk) >>

CloseBodyKeepsHandle(en, h, cid) ==
    IF ~en THEN <<>>
    ELSE IF HandleTruthy(h)
    THEN << Instr("prof", EndArgs, cid, NoChunk) >> \o FlushBody(en, cid)
    ELSE <<>>

\* close() (lines 132-141)
CloseBody(en, h, cid) ==
    IF ~en THEN <<>>
    ELSE IF HandleTruthy(h)
    THEN << Instr("prof", EndArgs, cid, NoChunk) >>
           \o FlushBody(en, cid)
           \o << Instr("close",   EndArgs, cid, NoChunk),
                 Instr("release", EndArgs, cid, NoChunk) >>
    ELSE <<>>

AfterWriteErrorDrop(h) == "none"

\* the handle after a write error was caught (lines 182-184): untouched
AfterWriteError(h) == h

\* a close() call has returned
CloseDone ==
    \E c \in 1..Len(calls) :
        calls[c].op = "close" /\ calls[c].done /\ calls[c].exc = ""

\* the record of a call in the history
CallRec(op, a, t) ==
    [ op |-> op, a |-> a, t |-> t, done |-> FALSE, exc |-> "",
      afterClose |-> CloseDone, endOpen |-> FALSE ]

\* thread t goes on with `rest`, or leaves its call (by exception exc, if
\* any) with the handle being h
Continue(t, rest, exc, h) ==
    IF rest = <<>> \/ exc # ""
    THEN /\ todo'  = [todo EXCEPT ![t] = <<>>]
         /\ cur'   = [cur EXCEPT ![t] = 0]
         /\ calls' = [calls EXCEPT ![cur[t]].done = TRUE,
                                   ![cur[t]].exc = exc,
                                   ![cur[t]].endOpen = (h = "open")]
    ELSE /\ todo'  = [todo EXCEPT ![t] = rest]
         /\ UNCHANGED << cur, calls >>

\* thread t starts a call with the steps `body`
Start(t, op, a, body) ==
    LET rec == CallRec(op, a, t) IN
    IF body = <<>>
    THEN /\ calls' = Append(calls, [rec EXCEPT !.done = TRUE,
                                               !.endOpen = (handle = "open")])
         /\ UNCHANGED << todo, cur >>
    ELSE /\ calls' = Append(calls, rec)
         /\ todo'  = [todo EXCEPT ![t] = body]
         /\ cur'   = [cur EXCEPT ![t] = Len(calls) + 1]

Idle(t) == constructed /\ todo[t] = <<>> /\ Len(calls) < MaxCalls

\* leading write steps of a row whose handle test or write failed
RECURSIVE DropWrites(_)
DropWrites(steps) ==
    IF steps # <<>> /\ Head(steps).op = "write"
    THEN DropWrites(Tail(steps)) ELSE steps

\* the Profiler after __init__ (lines 65-112), with the outcome `en` of the
\* environment check and `ntpOk` of the ntp request
InitProfiler(en, ntpOk, c) ==
    IF ~en
    THEN [ handle |-> "unset", file |-> <<>>, clock |-> c, syscalls |-> {} ]
    ELSE LET ti == TimestampInit(ntpOk, c) IN
         [ handle   |-> "open",
           file     |-> << HeaderChunk, SyncChunk(ti.clock, ti) >>,
           clock    |-> ti.clock + 1,
           syscalls |-> {"clock", "makedirs", "open"} ]

\* no call of combine_profiles is running
CombineIdle ==
    /\ profs0   = <<>>
    /\ profs    = <<>>
    /\ pc       = "idle"
    /\ i        = 1
    /\ t_host   = EmptyDict
    /\ t_min    = <<>>
    /\ c_end    = 0
    /\ accuracy = 0
    /\ p_glob   = <<>>
    /\ unsynced = {}
    /\ warned   = {}
    /\ err      = ""

\* env_name of the Profiler, split at '_'
EnvName == << "RADICAL", "UTILS", "TEST" >>

\* key in os.environ
InEnviron(env, key) == key \in DOMAIN env /\ env[key] # <<>>

\* self._enabled after the environment check (lines 67-88)
EnvEnabled(env, env_name) ==
    LET env_elems == IF Last(env_name) = "PROFILE" THEN Front(env_name)
                                                   ELSE env_name
    IN  \/ \E k \in 1..Len(env_elems) :
             InEnviron(env, SubSeq(env_elems, 1, k) \o << "PROFILE" >>)
        \/ InEnviron(env, << "RADICAL", "PILOT", "PROFILE" >>)

\* the environments the threads' calls are explored in
ProfEnvs == { EnvUnset, EnvWith(<< "RADICAL", "UTILS", "PROFILE" >>, "True") }

InitProf ==
    /\ CombineIdle
    /\ ProfilerIdle
    /\ ReaderIdle
    /\ HbIdle
    /\ IdIdle
    /\ LockIdle
    /\ environ \in ProfEnvs

\* Profiler(name)
Construct ==
    /\ ~constructed
    /\ \E ntpOk \in BOOLEAN :
         LET en == EnvEnabled(environ, EnvName)
             p  == InitProfiler(en, ntpOk, clock)
         IN
         /\ enabled'  = en
         /\ handle'   = p.handle
         /\ file'     = p.file
         /\ clock'    = p.clock
         /\ syscalls' = p.syscalls
    /\ constructed' = TRUE
    /\ UNCHANGED << synced, stderr, todo, cur, calls >>
    /\ UNCHANGED << combineVars, readerVars, envVars, hbVars, idVars, lockVars >>

\* thread t calls prof(**a)
CallProf(t) ==
    /\ Idle(t)
    /\ \E a \in ProfArgs :
         Start(t, "prof", a, << Instr("prof", a, Len(calls) + 1, NoChunk) >>)
    /\ UNCHANGED << constructed, enabled, handle, file, synced, stderr, clock,
                    syscalls >>
    /\ UNCHANGED << combineVars, readerVars, envVars, hbVars, idVars, lockVars >>

\* thread t calls flush()
CallFlush(t) ==
    /\ Idle(t)
    /\ Start(t, "flush", FlushArgs, FlushBody(enabled, Len(calls) + 1))
    /\ UNCHANGED << constructed, enabled, handle, file, synced, stderr, clock,
                    syscalls >>
    /\ UNCHANGED << combineVars, readerVars, envVars, hbVars, idVars, lockVars >>

\* thread t calls close()
CallClose(t) ==
    /\ Idle(t)
    /\ Start(t, "close", EndArgs, CloseBody(enabled, handle, Len(calls) + 1))
    /\ UNCHANGED << constructed, enabled, handle, file, synced, stderr, clock,
                    syscalls >>
    /\ UNCHANGED << combineVars, readerVars, envVars, hbVars, idVars, lockVars >>

\* thread t enters prof: defaults, timestamp, one row per uid
ProfEnter(t) ==
    /\ todo[t] # <<>> /\ Head(todo[t]).op = "prof"
    /\ LET h == Head(todo[t])
           e == ProfEntry(h.a, h.cid, enabled, clock)
       IN  /\ clock' = e.clock
           /\ Continue(t, e.steps \o Tail(todo[t]), "", handle)
    /\ UNCHANGED << constructed, enabled, handle, file, synced, stderr,
                    syscalls >>
    /\ UNCHANGED << combineVars, readerVars, envVars, hbVars, idVars, lockVars >>

\* thread t tests `if self._handle:` (line 179)
TestHandle(t) ==
    /\ todo[t] # <<>> /\ Head(todo[t]).op = "test"
    /\ LET h == Head(todo[t]) IN
         IF HandleTruthy(handle)
         THEN Continue(t, << [h EXCEPT !.op = "write"] >> \o Tail(todo[t]),
                       "", handle)
         ELSE Continue(t, DropWrites(Tail(todo[t])), "", handle)
    /\ UNCHANGED << constructed, enabled, handle, file, synced, stderr, clock,
                    syscalls >>
    /\ UNCHANGED << combineVars, readerVars, envVars, hbVars, idVars, lockVars >>

\* thread t calls self._handle.write (lines 180-184): the string is
\* appended, or the call raises (I/O error, closed file, handle None) and
\* the error is reported on stderr
Write(t) ==
    /\ todo[t] # <<>> /\ Head(todo[t]).op = "write"
    /\ \E ok \in BOOLEAN :
         IF handle = "open" /\ ok
         THEN /\ file' = Append(file, Head(todo[t]).chunk)
              /\ Continue(t, Tail(todo[t]), "", handle)
              /\ UNCHANGED << handle, stderr >>
         ELSE /\ stderr' = stderr + 1
              /\ handle' = AfterWriteError(handle)
              /\ Continue(t, DropWrites(Tail(todo[t])), "",
                          AfterWriteError(handle))
              /\ UNCHANGED file
    /\ UNCHANGED << constructed, enabled, synced, clock, syscalls >>
    /\ UNCHANGED << combineVars, readerVars, envVars, hbVars, idVars, lockVars >>

\* thread t calls self._handle.flush() and os.fsync (lines 154-155)
Flush(t) ==
    /\ todo[t] # <<>> /\ Head(todo[t]).op = "flush"
    /\ IF handle = "open"
       THEN /\ synced' = Len(file)
            /\ Continue(t, Tail(todo[t]), "", handle)
       ELSE /\ Continue(t, <<>>,
                        IF handle = "closed" THEN "ValueError"
                                             ELSE "AttributeError", handle)
            /\ UNCHANGED synced
    /\ UNCHANGED << constructed, enabled, handle, file, stderr, clock,
                    syscalls >>
    /\ UNCHANGED << combineVars, readerVars, envVars, hbVars, idVars, lockVars >>

\* thread t calls self._handle.close() (line 140)
CloseHandle(t) ==
    /\ todo[t] # <<>> /\ Head(todo[t]).op = "close"
    /\ IF HandleTruthy(handle)
       THEN /\ handle' = "closed"
            /\ Continue(t, Tail(todo[t]), "", "closed")
       ELSE /\ Continue(t, <<>>, "AttributeError", handle)
            /\ UNCHANGED handle
    /\ UNCHANGED << constructed, enabled, file, synced, stderr, clock,
                    syscalls >>
    /\ UNCHANGED << combineVars, readerVars, envVars, hbVars, idVars, lockVars >>

\* thread t sets self._handle = None (line 141)
ReleaseHandle(t) ==
    /\ todo[t] # <<>> /\ Head(todo[t]).op = "release"
    /\ handle' = "none"
    /\ Continue(t, Tail(todo[t]), "", "none")
    /\ UNCHANGED << constructed, enabled, file, synced, stderr, clock,
                    syscalls >>
    /\ UNCHANGED << combineVars, readerVars, envVars, hbVars, idVars, lockVars >>

NextProf ==
    \/ Construct
    \/ \E t \in Threads : CallProf(t)
    \/ \E t \in Threads : CallFlush(t)
    \/ \E t \in Threads : CallClose(t)
    \/ \E t \in Threads : ProfEnter(t)
    \/ \E t \in Threads : TestHandle(t)
    \/ \E t \in Threads : Write(t)
    \/ \E t \in Threads : Flush(t)
    \/ \E t \in Threads : CloseHandle(t)
    \/ \E t \in Threads : ReleaseHandle(t)

SpecProf == InitProf /\ [][NextProf]_vars

ProfTypeOK ==
    /\ handle \in {"unset", "open", "closed", "none"}
    /\ enabled => constructed
    /\ synced <= Len(file)
    /\ \A t \in Threads : (cur[t] = 0) <=> (todo[t] = <<>>)
    /\ \A c \in 1..Len(calls) : calls[c].done \/ cur[calls[c].t] = c

\* ---------------------------------------------------------------------
\* Properties of the Profiler

\* the reader's field layout (lines 21-28)
TIME         == 0
EVENT        == 1
COMP         == 2
UID          == 3
\* STATE in the source; STATE is a reserved word here
STATE_       == 4
MSG          == 5
ENTITY       == 6
PROF_KEY_MAX == 7

\* field f of a line of the file, in the reader's layout
Cell(ch, f) == ch.cells[f + 1]

\* the lines of the file written by call c, in file order
RECURSIVE RowsOf(_, _)
RowsOf(f, c) ==
    IF f = <<>> THEN <<>>
    ELSE IF Head(f).by = c THEN << Head(f) >> \o RowsOf(Tail(f), c)
    ELSE RowsOf(Tail(f), c)

CallIds == 1..Len(calls)

\* call c ran to its end on a recorder that stayed open, and no write of
\* any call has failed
Clean(c) ==
    /\ calls[c].done
    /\ calls[c].exc = ""
    /\ calls[c].endOpen
    /\ stderr = 0

\* C12: the first data row of an enabled recorder reads, in the reader's
\* layout, event = "sync_abs", component = the stream name, empty uid and
\* state, message = host:ip:local:reference:mode with mode ntp or sys; and
\* the header lists the fields in the reader's order.
\* (Violated: the header is time,comp,uid,state,event,msg, and the sync row
\* is written as time,"name:","","","sync_abs",message, so the reader finds
\* the name in the event field and "sync_abs" in the state field.)
C12_SyncRowInReaderLayout ==
    (constructed /\ enabled) =>
        /\ Len(file) >= 2
        /\ file[1].kind = "header"
        /\ file[1].cells = << "time", "event", "comp", "uid", "state", "msg" >>
        /\ file[2].kind = "row"
        /\ Cell(file[2], EVENT) = Str("sync_abs")
        /\ Cell(file[2], COMP)  = ProfName
        /\ Cell(file[2], UID)   = EmptyStr
        /\ Cell(file[2], STATE_) = EmptyStr
        /\ Len(Cell(file[2], MSG)) = 5
        /\ Cell(file[2], MSG)[5] \in {"ntp", "sys"}

\* C13: after close() of an enabled recorder the last row of the stream
\* is the END row.
\* (Violated: close calls flush() after prof("END"), and flush writes a
\* "flush" row, which is the last row of the stream.)
C13_EndIsLastRow ==
    \A c \in CallIds :
        (enabled /\ calls[c].op = "close" /\ calls[c].done
           /\ calls[c].exc = "" /\ stderr = 0 /\ ~calls[c].afterClose)
        => Cell(file[Len(file)], EVENT) = Str("END")

\* C14: a prof call made after close() has returned appends no row and
\* raises no exception.
C14_ProfAfterCloseIsNoop ==
    /\ \A c \in CallIds :
         (calls[c].op = "prof" /\ calls[c].afterClose) => calls[c].exc = ""
    /\ \A k \in 1..Len(file) :
         \/ file[k].by = 0
         \/ calls[file[k].by].op # "prof"
         \/ ~calls[file[k].by].afterClose

\* a prof call made after close, with a list of uids, has returned
C14_Witness ==
    \E c \in CallIds :
        /\ enabled /\ calls[c].op = "prof" /\ calls[c].afterClose
        /\ calls[c].done
        /\ calls[c].a.uid.tag = "list" /\ calls[c].a.uid.v # <<>>

\* C15: a prof call with a list of N uids appends exactly N rows, one per
\* uid in the given order, all with the same event, state, message,
\* component and timestamp (the given one, or one reading of the clock).
C15_ListExpands ==
    \A c \in CallIds :
        (calls[c].op = "prof" /\ calls[c].a.uid.tag = "list" /\ enabled
           /\ Clean(c))
        => LET a    == calls[c].a
               rows == RowsOf(file, c)
           IN  /\ Len(rows) = Len(a.uid.v)
               /\ \A k \in 1..Len(rows) :
                    /\ Cell(rows[k], UID)   = a.uid.v[k]
                    /\ Cell(rows[k], EVENT) = a.event
                    /\ Cell(rows[k], STATE_) = Default(a.state, EmptyStr)
                    /\ Cell(rows[k], MSG)   = Default(a.msg, EmptyStr)
                    /\ Cell(rows[k], COMP)  = Default(a.comp, ProfName)
                    /\ Cell(rows[k], TIME)  = Cell(rows[1], TIME)
                    /\ a.timestamp # None
                         => Cell(rows[k], TIME) = FmtTime(a.timestamp[1])

\* two list calls, one with and one without a timestamp, wrote their rows
C15_Witness ==
    \E c, d \in CallIds :
        /\ enabled /\ Clean(c) /\ Clean(d)
        /\ calls[c].op = "prof" /\ calls[d].op = "prof"
        /\ calls[c].a.uid.tag = "list" /\ calls[d].a.uid.tag = "list"
        /\ calls[c].a.timestamp = None /\ calls[d].a.timestamp # None
        /\ Len(RowsOf(file, c)) = 2 /\ Len(RowsOf(file, d)) = 2

\* some call is left by an exception in this step
Raises ==
    \E c \in CallIds : calls[c].exc = "" /\ calls'[c].exc # ""

\* C16: a failed write of a row is reported on stderr and raises nothing;
\* the recorder stays enabled, keeps its handle, and the stream is as it
\* was, so later prof calls attempt their writes as before.
C16_WriteErrorIsReported ==
    [][ stderr' # stderr =>
          /\ stderr' = stderr + 1
          /\ enabled' = enabled
          /\ handle' = handle
          /\ file' = file
          /\ ~Raises ]_vars

\* a prof call of a thread lost its row to a write error and returned; the
\* next prof call of the same thread wrote its row
C16_Witness ==
    \E c, d \in CallIds :
        /\ c < d /\ calls[c].t = calls[d].t
        /\ calls[c].op = "prof" /\ calls[d].op = "prof"
        /\ calls[c].a.uid.tag # "list" /\ calls[d].a.uid.tag # "list"
        /\ calls[c].done /\ calls[c].exc = "" /\ calls[c].endOpen
        /\ calls[d].done /\ calls[d].exc = ""
        /\ stderr = 1
        /\ RowsOf(file, c) = <<>>
        /\ Len(RowsOf(file, d)) = 1

\* C17: a disabled recorder is a no-op: construction queries no clock,
\* creates no directory and opens no file; prof, flush and close write
\* nothing and raise nothing.
C17_DisabledIsNoop ==
    (constructed /\ ~enabled) =>
        /\ syscalls = {}
        /\ handle = "unset"
        /\ file = <<>>
        /\ synced = 0
        /\ stderr = 0
        /\ clock = 0
        /\ \A c \in CallIds : calls[c].exc = ""

\* prof, flush and close were all called on a disabled recorder
C17_Witness ==
    /\ constructed /\ ~enabled
    /\ \A op \in {"prof", "flush", "close"} :
         \E c \in CallIds : calls[c].op = op /\ calls[c].done

\* C18: with several threads in prof at once, each row reaches the stream
\* as one complete line (one call's six fields and its newline, never a
\* part of a line or a mix of two), and no row of a call is lost.
\* One handle.write call appends its string as a whole.
C18_RowsWholeAndKept ==
    /\ \A k \in 1..Len(file) :
         /\ file[k].nl
         /\ file[k].kind = "row" => Len(file[k].cells) = 6
    /\ \A c \in CallIds :
         (calls[c].op = "prof" /\ enabled /\ Clean(c))
         => Len(RowsOf(file, c)) =
              IF calls[c].a.uid.tag = "list" THEN Len(calls[c].a.uid.v) ELSE 1

\* two threads were in prof at the same time: the rows of one call lie
\* around a row of the other
C18_Witness ==
    \E c, d \in CallIds :
        /\ calls[c].op = "prof" /\ calls[d].op = "prof"
        /\ calls[c].t # calls[d].t
        /\ Clean(c) /\ Clean(d)
        /\ \E k \in 1..Len(file) :
             /\ k + 2 <= Len(file)
             /\ file[k].by = c /\ file[k + 1].by = d /\ file[k + 2].by = c

\* ---------------------------------------------------------------------
\* Part 3: read_profiles
\*
\* A string is the sequence of its characters.  A number read by float()
\* counts 0.0001 s.  A field of a row is None, a string or a float.

VNone     == [ k |-> "none",  s |-> <<>>, n |-> 0 ]
VStr(s)   == [ k |-> "str",   s |-> s,    n |-> 0 ]
VFloat(n) == [ k |-> "float", s |-> <<>>, n |-> n ]

Digits == { "0", "1", "2", "3", "4", "5", "6", "7", "8", "9" }

DigitVal(ch) ==
    CASE ch = "0" -> 0 [] ch = "1" -> 1 [] ch = "2" -> 2 [] ch = "3" -> 3
      [] ch = "4" -> 4 [] ch = "5" -> 5 [] ch = "6" -> 6 [] ch = "7" -> 7
      [] ch = "8" -> 8 [] ch = "9" -> 9

\* s.split(ch, 1)[0] and what follows the first ch
RECURSIVE Before(_, _)
Before(s, ch) ==
    IF s = <<>> \/ Head(s) = ch THEN <<>>
    ELSE << Head(s) >> \o Before(Tail(s), ch)

After(s, ch) ==
    IF Len(Before(s, ch)) = Len(s) THEN <<>>
    ELSE SubSeq(s, Len(Before(s, ch)) + 2, Len(s))

IsDigits(s) == \A k \in 1..Len(s) : s[k] \in Digits

RECURSIVE Num(_)
Num(s) == IF s = <<>> THEN 0 ELSE 10 * Num(Front(s)) + DigitVal(Last(s))

\* float(s) succeeds: digits with at most one '.', at least one digit
\* (signs, exponents and blanks do not occur in the rows read here)
IsFloat(s) ==
    /\ IsDigits(Before(s, "."))
    /\ IsDigits(After(s, "."))
    /\ Len(Before(s, ".")) + Len(After(s, ".")) > 0

\* float(s), for at most four digits after the point
FloatVal(s) ==
    LET fr == After(s, ".")
        f4 == [ k \in 1..4 |-> IF k <= Len(fr) THEN fr[k] ELSE "0" ]
    IN  10000 * Num(Before(s, ".")) + Num(f4)

\* s.startswith(p), p a character
Startswith(s, p) == s # <<>> /\ s[1] = p

\* p in s
IsSubstr(p, s) ==
    \E k \in 0..(Len(s) - Len(p)) : SubSeq(s, k + 1, k + Len(p)) = p

\* 'session'
SESSION == << "s", "e", "s", "s", "i", "o", "n" >>

\* row.extend([None] * (PROF_KEY_MAX - len(row)))   (line 276)
Pad(row) ==
    [ k \in 1..Max(Len(row), PROF_KEY_MAX) |->
        IF k <= Len(row) THEN VStr(row[k]) ELSE VNone ]

\* `if uid:`
UidTruthy(v) == v.k = "str" /\ v.s # <<>>

\* lines 282-287
SetEntity(row, sidv) ==
    IF UidTruthy(row[UID + 1])
    THEN [row EXCEPT ![ENTITY + 1] = VStr(Before(row[UID + 1].s, "."))]
    ELSE [row EXCEPT ![ENTITY + 1] = VStr(SESSION), ![UID + 1] = sidv]

\* lines 290-291
HasNone(row) == \E k \in 1..Len(row) : row[k].k = "none"

\* lines 295-302: `pattern in row[field]` is a TypeError for the float
FilterTypeError(row, ef) == \E fp \in ef : row[fp[1] + 1].k # "str"
FilterSkips(row, ef) ==
    \E fp \in ef : IsSubstr(fp[2], row[fp[1] + 1].s)

Outcome(out, exc, row) == [ out |-> out, exc |-> exc, row |-> row ]

\* the body of the row loop (lines 268-310) for the row as csv.reader
\* yields it: what becomes of the row, and the row as it is then
ProcessRow(raw, sidv, ef) ==
    LET asread == [ k \in 1..Len(raw) |-> VStr(raw[k]) ]
        padded == Pad(raw)
        timed  == [padded EXCEPT ![TIME + 1] = VFloat(FloatVal(raw[TIME + 1]))]
        row    == SetEntity(timed, sidv)
    IN  IF raw = <<>> THEN Outcome("raise", "IndexError", asread)
        ELSE IF Startswith(raw[TIME + 1], "#") THEN Outcome("header", "", asread)
        ELSE IF ~IsFloat(raw[TIME + 1]) THEN Outcome("raise", "ValueError", padded)
        ELSE IF HasNone(row) THEN Outcome("raise", "AssertionError", row)
        ELSE IF FilterTypeError(row, ef) THEN Outcome("raise", "TypeError", row)
        ELSE IF FilterSkips(row, ef) THEN Outcome("filtered", "", row)
        ELSE Outcome("append", "", row)

\* the rows of the files read
HeaderRow == << << "#", "t" >>, << "c" >>, << "u" >>, << "s" >>, << "e" >>,
                << "m" >> >>
GoodRow   == << << "1", ".", "5" >>, << "e" >>, << "c" >>, << "u", ".", "1" >>,
                << "s" >>, << "m" >> >>
NoUidRow  == << << "2" >>, << "e" >>, << "c" >>, <<>>, << "s" >>, << "m" >> >>
ShortRow  == << << "1" >>, << "e" >>, << "c" >> >>
BadTimeRow == << << "x" >>, << "e" >>, << "c" >>, << "u", ".", "1" >>,
                 << "s" >>, << "m" >> >>

RawRows == { HeaderRow, GoodRow, NoUidRow, ShortRow, BadTimeRow }

SeqsUpTo(S, n) == UNION { [1..k -> S] : k \in 0..n }

\* the first file is any file of up to MaxFileRows rows, the files after it
\* are of these few
Files      == SeqsUpTo(RawRows, MaxFileRows)
LaterFiles == { <<>>, << GoodRow >>, << HeaderRow, NoUidRow >>,
                << BadTimeRow >> }
Profiles   ==
    { << f >> \o rest : f \in Files, rest \in SeqsUpTo(LaterFiles, MaxFiles - 1) }
Sids     == { <<>>, << << "s", "1" >> >> }
Filters  == { {}, { << UID, << "u" >> >> }, { << TIME, << "1" >> >> },
              { << ENTITY, << "s", "e", "s" >> >>, << MSG, << "x" >> >> } }

\* read_profiles(profiles, sid, efilter) is called; the files have
\* distinct names
InitRead ==
    /\ CombineIdle
    /\ ProfilerIdle
    /\ EnvIdle
    /\ HbIdle
    /\ IdIdle
    /\ LockIdle
    /\ profiles \in Profiles
    /\ sid      \in Sids
    /\ efilter  \in Filters
    /\ ret      = <<>>
    /\ skipped  = 0
    /\ rpc      = "open"
    /\ fidx     = 1
    /\ ridx     = 1
    /\ stdout   = <<>>
    /\ raised   = ""
    /\ result   = <<>>

\* the next file is opened: ret[prof] = list()   (lines 259-264)
OpenProf ==
    /\ rpc = "open" /\ fidx <= Len(profiles)
    /\ ret'  = Append(ret, <<>>)
    /\ ridx' = 1
    /\ rpc'  = "rows"
    /\ UNCHANGED << profiles, sid, efilter, skipped, fidx, stdout, raised,
                    result >>
    /\ UNCHANGED << combineVars, profilerVars, envVars, hbVars, idVars, lockVars >>

\* one turn of the row loop (lines 266-310)
ReadRow ==
    /\ rpc = "rows" /\ ridx <= Len(profiles[fidx])
    /\ LET o == ProcessRow(profiles[fidx][ridx],
                           IF sid = <<>> THEN VNone ELSE VStr(sid[1]),
                           efilter)
       IN  /\ skipped' = IF o.out = "header" THEN skipped + 1 ELSE skipped
           /\ ret'     = IF o.out = "append"
                         THEN [ret EXCEPT ![fidx] = Append(@, o.row)]
                         ELSE ret
           /\ IF o.out = "raise"
              THEN /\ stdout' = stdout \o << << fidx >>, o.row >>
                   /\ raised' = o.exc
                   /\ rpc'    = "raised"
                   /\ UNCHANGED ridx
              ELSE /\ ridx' = ridx + 1
                   /\ UNCHANGED << stdout, raised, rpc >>
    /\ UNCHANGED << profiles, sid, efilter, fidx, result >>
    /\ UNCHANGED << combineVars, profilerVars, envVars, hbVars, idVars, lockVars >>

\* the file is exhausted and closed
CloseProf ==
    /\ rpc = "rows" /\ ridx > Len(profiles[fidx])
    /\ fidx' = fidx + 1
    /\ rpc'  = "open"
    /\ UNCHANGED << profiles, sid, efilter, ret, skipped, ridx, stdout,
                    raised, result >>
    /\ UNCHANGED << combineVars, profilerVars, envVars, hbVars, idVars, lockVars >>

\* return ret   (line 319)
ReturnRet ==
    /\ rpc = "open" /\ fidx > Len(profiles)
    /\ result' = << ret >>
    /\ rpc'    = "returned"
    /\ UNCHANGED << profiles, sid, efilter, ret, skipped, fidx, ridx, stdout,
                    raised >>
    /\ UNCHANGED << combineVars, profilerVars, envVars, hbVars, idVars, lockVars >>

NextRead == OpenProf \/ ReadRow \/ CloseProf \/ ReturnRet

SpecRead == InitRead /\ [][NextRead]_vars

ReadTypeOK ==
    /\ rpc \in {"open", "rows", "raised", "returned"}
    /\ (rpc = "raised") <=> (raised # "")
    /\ (rpc = "returned") <=> (result # <<>>)
    /\ Len(ret) <= Len(profiles)
    /\ \A f \in 1..Len(ret) : \A r \in 1..Len(ret[f]) :
         /\ Len(ret[f][r]) = PROF_KEY_MAX
         /\ ret[f][r][TIME + 1].k = "float"

\* ---------------------------------------------------------------------
\* Properties of read_profiles

\* a data row with a numeric time that lacks trailing fields
IsShort(raw) ==
    /\ Len(raw) \in (COMP + 1)..(MSG)
    /\ ~Startswith(raw[TIME + 1], "#")
    /\ IsFloat(raw[TIME + 1])

\* a data row whose time is not a number
IsBadTime(raw) ==
    /\ Len(raw) > 0
    /\ ~Startswith(raw[TIME + 1], "#")
    /\ ~IsFloat(raw[TIME + 1])

\* a header row, or a full data row that read_profiles accepts
IsFine(raw) ==
    /\ Len(raw) = MSG + 1
    /\ \/ Startswith(raw[TIME + 1], "#")
       \/ IsFloat(raw[TIME + 1]) /\ (raw[UID + 1] # <<>> \/ sid # <<>>)

AllFine(f) == \A r \in 1..Len(f) : IsFine(f[r])

\* C19: a row that lacks trailing fields is padded and returned; it never
\* makes the read fail.
\* (Violated: the row is padded with None, and the assertion that no field
\* is None then fails and leaves read_profiles.)
C19_ShortRowNeverFails ==
    rpc = "raised" => ~IsShort(profiles[fidx][ridx])

\* C20: a row with a non-numeric time fails its own stream only; the other
\* streams of the call are read and returned.
\* (Violated: the ValueError is re-raised out of read_profiles, which
\* returns nothing.)
C20_OtherStreamsReturned ==
    \A f \in 1..Len(profiles) :
        ( /\ rpc \in {"raised", "returned"}
          /\ Len(profiles) > 1
          /\ efilter = {}
          /\ \E r \in 1..Len(profiles[f]) : IsBadTime(profiles[f][r])
          /\ \A g \in 1..Len(profiles) :
               g # f => profiles[g] # <<>> /\ AllFine(profiles[g]) )
        => /\ rpc = "returned"
           /\ \A g \in 1..Len(profiles) :
                g # f => Len(result[1][g]) + skipped >= Len(profiles[g])

\* the session id as a field value
SidValue == IF sid = <<>> THEN VNone ELSE VStr(sid[1])

\* a full data row with a numeric time and an empty uid
IsNoUid(raw) ==
    /\ Len(raw) = MSG + 1
    /\ ~Startswith(raw[TIME + 1], "#")
    /\ IsFloat(raw[TIME + 1])
    /\ raw[UID + 1] = <<>>

\* C21: a returned record with a uid has entity = the uid up to its first
\* '.', and keeps the uid; a row with an empty uid gets uid = the session
\* id, which the caller may omit, and entity "session", and is returned.
\* (Violated: without a session id the uid becomes None, and the assertion
\* that no field is None fails: the row is not returned, the read fails.)
C21_EntityFromUid ==
    /\ \A f \in 1..Len(ret) : \A r \in 1..Len(ret[f]) :
         LET rec == ret[f][r] IN
         \/ /\ rec[ENTITY + 1] = VStr(SESSION)
            /\ rec[UID + 1] = SidValue
         \/ /\ rec[UID + 1].s # <<>>
            /\ rec[ENTITY + 1] = VStr(Before(rec[UID + 1].s, "."))
    /\ raised = "AssertionError" => ~IsNoUid(profiles[fidx][ridx])

\* the record read_profiles makes of a full data row
RecordOf(raw) == ProcessRow(raw, SidValue, {}).row

\* some pattern of the filter occurs in its field of the record
Matches(rec, ef) ==
    \E fp \in ef : rec[fp[1] + 1].k = "str" /\ IsSubstr(fp[2], rec[fp[1] + 1].s)

\* the records of a file that the filter keeps, in file order
RECURSIVE Kept(_, _)
Kept(f, ef) ==
    IF f = <<>> THEN <<>>
    ELSE IF ProcessRow(Head(f), SidValue, {}).out = "append"
            /\ ~Matches(RecordOf(Head(f)), ef)
    THEN << RecordOf(Head(f)) >> \o Kept(Tail(f), ef)
    ELSE Kept(Tail(f), ef)

\* C22: with an exclusion filter a record is dropped iff a pattern
\* configured for some field occurs in the record's value of that field;
\* all other records are kept in their order.
\* (Violated: a filter on the time field makes `pattern in row[TIME]`
\* raise TypeError, as row[TIME] is a float by then; the read fails.)
C22_FilterDropsMatching ==
    /\ raised # "TypeError"
    /\ \A f \in 1..Len(ret) :
         (f < fidx \/ rpc = "returned") => ret[f] = Kept(profiles[f], efilter)

\* ---------------------------------------------------------------------
\* Part 4: one thread records, closes, and the file is read back
\*
\* The lines of the file are rendered as characters the way the format
\* expressions of Profiler do, and split into fields the way csv.reader
\* does for lines without quotes.

\* the characters of the strings that occur
CharsOf(a) ==
    CASE a = ""         -> <<>>
      [] a = "ev"       -> << "e", "v" >>
      [] a = "END"      -> << "E", "N", "D" >>
      [] a = "flush"    -> << "f", "l", "u", "s", "h" >>
      [] a = "u1"       -> << "u", "1" >>
      [] a = "u2"       -> << "u", "2" >>
      [] a = "t.1"      -> << "t", ".", "1" >>
      [] a = "S"        -> << "S" >>
      [] a = "m"        -> << "m" >>
      [] a = "a,b"      -> << "a", ",", "b" >>
      [] a = "c"        -> << "c" >>
      [] a = "p"        -> << "p" >>
      [] a = "list"     -> << "l", "i", "s", "t" >>
      [] a = "sync_abs" -> << "s", "y", "n", "c", "_", "a", "b", "s" >>
      [] a = "h1"       -> << "h", "1" >>
      [] a = "ipA"      -> << "i", "p", "A" >>
      [] a = "ntp"      -> << "n", "t", "p" >>
      [] a = "sys"      -> << "s", "y", "s" >>
      [] a = "time"     -> << "t", "i", "m", "e" >>
      [] a = "comp"     -> << "c", "o", "m", "p" >>
      [] a = "uid"      -> << "u", "i", "d" >>
      [] a = "state"    -> << "s", "t", "a", "t", "e" >>
      [] a = "event"    -> << "e", "v", "e", "n", "t" >>
      [] a = "msg"      -> << "m", "s", "g" >>

DigitChar(d) ==
    CASE d = 0 -> "0" [] d = 1 -> "1" [] d = 2 -> "2" [] d = 3 -> "3"
      [] d = 4 -> "4" [] d = 5 -> "5" [] d = 6 -> "6" [] d = 7 -> "7"
      [] d = 8 -> "8" [] d = 9 -> "9"

\* '%d' % n
RECURSIVE DecChars(_)
DecChars(n) ==
    IF n < 10 THEN << DigitChar(n) >>
    ELSE DecChars(n \div 10) \o << DigitChar(n % 10) >>

\* the last w digits of n
RECURSIVE FixChars(_, _)
FixChars(n, w) ==
    IF w = 0 THEN <<>>
    ELSE FixChars(n \div 10, w - 1) \o << DigitChar(n % 10) >>

\* the parts joined with sep
RECURSIVE JoinWith(_, _)
JoinWith(ss, sep) ==
    IF ss = <<>> THEN <<>>
    ELSE IF Len(ss) = 1 THEN ss[1]
    ELSE ss[1] \o << sep >> \o JoinWith(Tail(ss), sep)

\* s.split(sep)
RECURSIVE SplitAt(_, _)
SplitAt(s, sep) ==
    IF Len(Before(s, sep)) = Len(s) THEN << s >>
    ELSE << Before(s, sep) >> \o SplitAt(After(s, sep), sep)

\* '%s' of a string of the recorder (its ':'-separated parts)
RenderStr(parts) ==
    JoinWith([ k \in 1..Len(parts) |-> CharsOf(parts[k]) ], ":")

\* '%.4f' of a time: t is FmtTime(..), an even count of 0.00005 s
RenderTime(t) ==
    DecChars((t \div 2) \div 10000) \o << "." >> \o FixChars((t \div 2) % 10000, 4)

\* trailing zeros dropped, one digit kept
RECURSIVE StripZeros(_)
StripZeros(ds) ==
    IF Len(ds) > 1 /\ Last(ds) = "0" THEN StripZeros(Front(ds)) ELSE ds

\* '%s' of a float: t counts 0.00005 s
RenderFloat(t) ==
    DecChars(t \div 20000) \o << "." >> \o StripZeros(FixChars((t % 20000) * 5, 5))

\* the text of one chunk of the file, without its newline
RenderChunk(ch) ==
    IF ch.kind = "header"
    THEN << "#" >> \o JoinWith([ k \in 1..Len(ch.cells) |-> CharsOf(ch.cells[k]) ], ",")
    ELSE JoinWith(
           [ k \in 1..Len(ch.cells) |->
               IF k = 1 THEN RenderTime(ch.cells[1])
               ELSE IF ch.by = 0 /\ k = 6
               THEN JoinWith(<< CharsOf(ch.cells[6][1]), CharsOf(ch.cells[6][2]),
                                RenderFloat(ch.cells[6][3]),
                                RenderFloat(ch.cells[6][4]),
                                CharsOf(ch.cells[6][5]) >>, ":")
               ELSE RenderStr(ch.cells[k]) ],
           ",")

\* the rows csv.reader yields for the file
ReadBack(f) == [ k \in 1..Len(f) |-> SplitAt(RenderChunk(f[k]), ",") ]

\* the events the one thread records
SoloArgs ==
    ProfArgs \cup
    { Args(Str("ev"), UStr(Str("t.1")), None, Str("a,b"), None, None) }

InitSolo ==
    /\ CombineIdle
    /\ ProfilerIdle
    /\ ReaderIdle
    /\ HbIdle
    /\ IdIdle
    /\ LockIdle
    /\ environ \in ProfEnvs

\* the thread calls prof(**a)
RecordEvent ==
    /\ Idle(1)
    /\ \E a \in SoloArgs :
         Start(1, "prof", a, << Instr("prof", a, Len(calls) + 1, NoChunk) >>)
    /\ UNCHANGED << constructed, enabled, handle, file, synced, stderr, clock,
                    syscalls >>
    /\ UNCHANGED << combineVars, readerVars, envVars, hbVars, idVars, lockVars >>

\* read_profiles([file], sid) is called on the file of the closed Profiler
StartRead ==
    /\ rpc = "idle"
    /\ constructed /\ enabled /\ handle = "none" /\ todo[1] = <<>>
    /\ profiles' = << ReadBack(file) >>
    /\ sid' \in Sids
    /\ rpc' = "open"
    /\ UNCHANGED << efilter, ret, skipped, fidx, ridx, stdout, raised, result >>
    /\ UNCHANGED << combineVars, profilerVars, envVars, hbVars, idVars, lockVars >>

NextSolo ==
    \/ rpc = "idle" /\ Construct
    \/ rpc = "idle" /\ RecordEvent
    \/ rpc = "idle" /\ CallFlush(1)
    \/ rpc = "idle" /\ CallClose(1)
    \/ rpc = "idle" /\ ProfEnter(1)
    \/ rpc = "idle" /\ TestHandle(1)
    \/ rpc = "idle" /\ Write(1)
    \/ rpc = "idle" /\ Flush(1)
    \/ rpc = "idle" /\ CloseHandle(1)
    \/ rpc = "idle" /\ ReleaseHandle(1)
    \/ StartRead
    \/ OpenProf
    \/ ReadRow
    \/ CloseProf
    \/ ReturnRet

SpecSolo == InitSolo /\ [][NextSolo]_vars

\* field f of a line of the file as the reader's field value
Rendered(ch, f) == VStr(RenderStr(Cell(ch, f)))

\* C23: reading back the stream a recorder wrote yields the recorded
\* events in their order, with the same event, component, uid, state and
\* message, and the time as a number.
\* (Violated: read without a session id, the read fails on the first row
\* the recorder writes, whose uid is empty; read with one, every empty uid
\* comes back as the session id; a ',' in a value splits the field.)
C23_RoundTrip ==
    (rpc \in {"raised", "returned"} /\ stderr = 0) =>
        /\ rpc = "returned"
        /\ Len(result[1][1]) = Len(file) - 1
        /\ \A k \in 2..Len(file) :
             file[k].by > 0 =>
               LET rec == result[1][1][k - 1] IN
               /\ rec[TIME + 1] = VFloat(Cell(file[k], TIME) \div 2)
               /\ \A f \in { EVENT, COMP, UID, STATE_, MSG } :
                    rec[f + 1] = Rendered(file[k], f)

\* the environments: nothing set, or one variable set to one value
OneVarEnvs == { EnvUnset } \cup { EnvWith(k, v) : k \in EnvVars, v \in EnvValues }

InitEnv ==
    /\ CombineIdle
    /\ ProfilerIdle
    /\ ReaderIdle
    /\ HbIdle
    /\ IdIdle
    /\ LockIdle
    /\ environ \in OneVarEnvs

\* a Profiler is made in the environment and one thread records events
NextEnv ==
    \/ Construct
    \/ RecordEvent
    \/ ProfEnter(1)
    \/ TestHandle(1)
    \/ Write(1)

SpecEnv == InitEnv /\ [][NextEnv]_vars

\* the variables of the cascade of the Profiler's env_name
Cascade == EnvVars \ { << "RADICAL", "PILOT", "PROFILE" >> }

\* C25: the Profiler is enabled (file created, rows written) when no
\* variable of its cascade is set or one is set to '', '1', 'true', 'True'
\* or 'TRUE'; it is disabled (no file, no row) when one is set to 'false',
\* 'False', 'FALSE' or '0'.
\* (Violated: the code tests only whether a variable is present: with none
\* set the Profiler is disabled, with one set to 'false' it is enabled.)
C25_EnabledByValue ==
    constructed =>
        LET vals == { environ[k][1] : k \in { c \in Cascade : environ[c] # <<>> } }
        IN  /\ (vals = {} \/ vals \cap { "", "1", "true", "True", "TRUE" } # {})
                 => enabled /\ "open" \in syscalls
            /\ (vals \cap { "false", "False", "FALSE", "0" } # {})
                 => ~enabled /\ file = <<>>

\* C24: a prof call with a single uid on an enabled, open recorder appends
\* exactly one row: its time is the given timestamp, its event and uid the
\* given ones, the component defaults to the recorder's name, omitted uid,
\* state and message are empty strings.
\* (Violated: the time is written with '%.4f', so a given timestamp with
\* more than four decimals is not the time of the row.)
C24_OneRowPerCall ==
    \A c \in CallIds :
        (calls[c].op = "prof" /\ calls[c].a.uid.tag # "list" /\ enabled
           /\ Clean(c))
        => LET a    == calls[c].a
               rows == RowsOf(file, c)
           IN  /\ Len(rows) = 1
               /\ Cell(rows[1], EVENT)  = a.event
               /\ Cell(rows[1], UID)    =
                    IF a.uid.tag = "none" THEN EmptyStr ELSE a.uid.v
               /\ Cell(rows[1], COMP)   = Default(a.comp, ProfName)
               /\ Cell(rows[1], STATE_) = Default(a.state, EmptyStr)
               /\ Cell(rows[1], MSG)    = Default(a.msg, EmptyStr)
               /\ a.timestamp # None
                    => Cell(rows[1], TIME) = a.timestamp[1]


\* ===========================================================================
\* Part 5: Heartbeat (heartbeat.py): the watcher thread, beat, stop and
\* wait_startup.  Times count seconds; the clock is that of time.time(), which
\* is positive.  The Heartbeat is built without a beat_cb and with interval 1.
\* ===========================================================================

\* the timeouts the Heartbeat is built with (interval <= timeout)
HbTimeouts == { 1, 2 }

\* what a term_cb call does: return True, False, something else, or raise
CbOutcomes == { "True", "False", "None", "raise" }

\* the uid argument of beat: <<>> for None
BeatArgs == { <<>>, << "a" >> }

\* the uids argument of wait_startup: <<>> for None
WaitUids == { <<>>, << "a" >>, << "a", "default" >> }

\* the timeout argument of wait_startup: <<>> for None
WaitTimeouts == { <<>>, << 0 >>, << 1 >> }

\* list(d.keys()): the keys of the dict in some order
KeyLists(d) ==
    LET keys == { u \in Uids : d[u] # <<>> }
    IN  { l \in SeqsUpTo(Uids, Cardinality(Uids)) :
            /\ Len(l) = Cardinality(keys)
            /\ { l[k] : k \in 1..Len(l) } = keys }

\* Heartbeat(uid, timeout, interval=1, term_cb=...); self._log is always a
\* logger
InitHB ==
    /\ CombineIdle
    /\ ProfilerIdle
    /\ ReaderIdle
    /\ EnvIdle
    /\ IdIdle
    /\ LockIdle
    /\ hb_timeout \in HbTimeouts
    /\ hb_term_cb \in BOOLEAN
    /\ hclock     = 1
    /\ tstamps    = [ u \in Uids |-> <<>> ]
    /\ term       = FALSE
    /\ wpc        = "none"
    /\ w_wake     = 0
    /\ w_now      = 0
    /\ w_uids     = <<>>
    /\ w_uid      = ""
    /\ w_ret      = "False"
    /\ cb_uid     = ""
    /\ killed     = FALSE
    /\ beaten     = {}
    /\ hb_last    = 0
    /\ handled    = FALSE
    /\ turns      = FALSE
    /\ spc        = "idle"
    /\ s_uids     = <<>>
    /\ s_timeout  = <<>>
    /\ s_start    = 0
    /\ s_result   = <<>>

\* what no action of Part 5 changes
HbRest == UNCHANGED << combineVars, profilerVars, readerVars, envVars, idVars,
                       lockVars,
                       hb_timeout, hb_term_cb >>

\* time passes
Tick ==
    /\ hclock < MaxTime
    /\ hclock' = hclock + 1
    /\ UNCHANGED << tstamps, term, wpc, w_wake, w_now, w_uids, w_uid, w_ret,
                    cb_uid, killed, beaten, hb_last, handled, turns,
                    spc, s_uids, s_timeout, s_start, s_result >>
    /\ HbRest

\* start(): the watcher thread begins
HbStart ==
    /\ ~killed
    /\ wpc = "none"
    /\ wpc' = "head"
    /\ hb_last' = hclock
    /\ handled' = FALSE
    /\ UNCHANGED << hclock, tstamps, term, w_wake, w_now, w_uids, w_uid, w_ret,
                    cb_uid, killed, beaten, turns,
                    spc, s_uids, s_timeout, s_start, s_result >>
    /\ HbRest

\* stop(): sets the term event (and then joins the watcher)
HbStop ==
    /\ ~killed
    /\ wpc # "none"
    /\ ~term
    /\ term' = TRUE
    /\ UNCHANGED << hclock, tstamps, wpc, w_wake, w_now, w_uids, w_uid, w_ret,
                    cb_uid, killed, beaten, hb_last, handled, turns,
                    spc, s_uids, s_timeout, s_start, s_result >>
    /\ HbRest

\* beat(uid=None): record the time for the uid
Beat ==
    /\ ~killed
    /\ \E arg \in BeatArgs :
         LET uid == IF arg = <<>> THEN "default" ELSE arg[1]
         IN  /\ tstamps' = [ tstamps EXCEPT ![uid] = << hclock >> ]
             /\ beaten'  = beaten \cup { uid }
    /\ hb_last' = hclock
    /\ handled' = FALSE
    /\ UNCHANGED << hclock, term, wpc, w_wake, w_now, w_uids, w_uid, w_ret,
                    cb_uid, killed, turns,
                    spc, s_uids, s_timeout, s_start, s_result >>
    /\ HbRest

\* _watch: `while not self._term.is_set()`, then time.sleep begins
WatchHead ==
    /\ ~killed
    /\ wpc = "head"
    /\ IF term
       THEN wpc' = "exit" /\ UNCHANGED w_wake
       ELSE wpc' = "sleep" /\ w_wake' = hclock + 1
    /\ UNCHANGED << hclock, tstamps, term, w_now, w_uids, w_uid, w_ret,
                    cb_uid, killed, beaten, hb_last, handled, turns,
                    spc, s_uids, s_timeout, s_start, s_result >>
    /\ HbRest

\* _watch: the sleep is over, `now = time.time()`
WatchWake ==
    /\ ~killed
    /\ wpc = "sleep"
    /\ hclock >= w_wake
    /\ w_now' = hclock
    /\ wpc' = "keys"
    /\ UNCHANGED << hclock, tstamps, term, w_wake, w_uids, w_uid, w_ret,
                    cb_uid, killed, beaten, hb_last, handled, turns,
                    spc, s_uids, s_timeout, s_start, s_result >>
    /\ HbRest

\* _watch: `uids = list(self._tstamps.keys())`
WatchKeys ==
    /\ ~killed
    /\ wpc = "keys"
    /\ w_uids' \in KeyLists(tstamps)
    /\ wpc' = "get"
    /\ UNCHANGED << hclock, tstamps, term, w_wake, w_now, w_uid, w_ret,
                    cb_uid, killed, beaten, hb_last, handled, turns,
                    spc, s_uids, s_timeout, s_start, s_result >>
    /\ HbRest

\* where the watcher goes after the check of a uid
AfterCheck(uid, last) ==
    IF last = <<>>
    THEN "get"
    ELSE IF w_now - last[1] > hb_timeout
         THEN IF hb_term_cb THEN "cb" ELSE "decide"
         ELSE "get"

\* _watch: `for uid in uids`, the check of one uid
WatchGet ==
    /\ ~killed
    /\ wpc = "get"
    /\ IF w_uids = <<>>
       THEN /\ wpc' = "head"
            /\ turns' = TRUE
            /\ UNCHANGED << w_uids, w_uid, w_ret >>
       ELSE /\ wpc' = AfterCheck(Head(w_uids), tstamps[Head(w_uids)])
            /\ w_uids' = Tail(w_uids)
            /\ w_uid' = Head(w_uids)
            /\ w_ret' = "False"
            /\ UNCHANGED turns
    /\ UNCHANGED << hclock, tstamps, term, w_wake, w_now,
                    cb_uid, killed, beaten, hb_last, handled,
                    spc, s_uids, s_timeout, s_start, s_result >>
    /\ HbRest

\* _watch: `ret = self._term_cb(uid)` in its try block
WatchCb ==
    /\ ~killed
    /\ wpc = "cb"
    /\ \E out \in CbOutcomes :
         w_ret' = IF out = "raise" THEN "False" ELSE out
    /\ cb_uid' = w_uid
    /\ handled' = TRUE
    /\ wpc' = "decide"
    /\ UNCHANGED << hclock, tstamps, term, w_wake, w_now, w_uids, w_uid,
                    killed, beaten, hb_last, turns,
                    spc, s_uids, s_timeout, s_start, s_result >>
    /\ HbRest

\* the test that decides on the kill
Fatal(r) == r = "False"

\* _watch: `if ret is False`: kill, else forget the uid
WatchDecide ==
    /\ ~killed
    /\ wpc = "decide"
    /\ IF Fatal(w_ret)
       THEN /\ killed' = TRUE
            /\ handled' = TRUE
            /\ wpc' = "dead"
            /\ UNCHANGED tstamps
       ELSE /\ tstamps' = [ tstamps EXCEPT ![w_uid] = <<>> ]
            /\ wpc' = "get"
            /\ UNCHANGED << killed, handled >>
    /\ UNCHANGED << hclock, term, w_wake, w_now, w_uids, w_uid, w_ret,
                    cb_uid, beaten, hb_last, turns,
                    spc, s_uids, s_timeout, s_start, s_result >>
    /\ HbRest

\* wait_startup(uids=None, timeout=None) begins
Wait ==
    /\ ~killed
    /\ spc = "idle"
    /\ \E us \in WaitUids, to \in WaitTimeouts :
         /\ s_uids' = IF us = <<>> THEN << "default" >> ELSE us
         /\ s_timeout' = to
    /\ s_start' = hclock
    /\ spc' = "check"
    /\ UNCHANGED << hclock, tstamps, term, wpc, w_wake, w_now, w_uids, w_uid,
                    w_ret, cb_uid, killed, beaten, hb_last, handled, turns,
                    s_result >>
    /\ HbRest

\* the uids of the list that have an entry
Ok(us, d) == SelectSeq(us, LAMBDA u : Truthy(d[u]))

\* the uids of the list that are not in ok
NotOk(us, ok) ==
    SelectSeq(us, LAMBDA u : \A k \in 1..Len(ok) : ok[k] # u)

\* `if timeout:` and the time is over
TimedOut(to, start, t) == Truthy(to) /\ t - start > to[1]

\* wait_startup: one turn of its loop, up to the sleep or the return
WaitCheck ==
    /\ ~killed
    /\ spc = "check"
    /\ LET ok == Ok(s_uids, tstamps)
       IN  IF Len(ok) = Len(s_uids)
           THEN spc' = "done" /\ s_result' = <<>>
           ELSE IF TimedOut(s_timeout, s_start, hclock)
                THEN spc' = "done" /\ s_result' = << NotOk(s_uids, ok) >>
                ELSE spc' = "sleep" /\ UNCHANGED s_result
    /\ UNCHANGED << hclock, tstamps, term, wpc, w_wake, w_now, w_uids, w_uid,
                    w_ret, cb_uid, killed, beaten, hb_last, handled, turns,
                    s_uids, s_timeout, s_start >>
    /\ HbRest

\* wait_startup: time.sleep(0.05) is over
WaitSleep ==
    /\ ~killed
    /\ spc = "sleep"
    /\ spc' = "check"
    /\ UNCHANGED << hclock, tstamps, term, wpc, w_wake, w_now, w_uids, w_uid,
                    w_ret, cb_uid, killed, beaten, hb_last, handled, turns,
                    s_uids, s_timeout, s_start, s_result >>
    /\ HbRest

NextHB ==
    \/ Tick
    \/ HbStart
    \/ HbStop
    \/ Beat
    \/ WatchHead
    \/ WatchWake
    \/ WatchKeys
    \/ WatchGet
    \/ WatchCb
    \/ WatchDecide

SpecHB == InitHB /\ [][NextHB]_vars

\* a Heartbeat with timeout 1 and a term_cb, on which wait_startup is called
\* once
InitWait ==
    /\ InitHB
    /\ hb_timeout = 1
    /\ hb_term_cb

NextWait ==
    \/ NextHB
    \/ Wait
    \/ WaitCheck
    \/ WaitSleep

SpecWait == InitWait /\ [][NextWait]_vars

\* the watcher checks the first of its uids and finds its beat too old
FindsStale ==
    /\ wpc = "get"
    /\ w_uids # <<>>
    /\ tstamps[Head(w_uids)] # <<>>
    /\ w_now - tstamps[Head(w_uids)][1] > hb_timeout

C27_SilenceIsHandled ==
    ( /\ wpc = "head"
      /\ turns
      /\ ~term
      /\ w_now - hb_last > hb_timeout )
    => handled

\* every uid of the list has an entry in the dict
AllSeen(us, d) == \A k \in 1..Len(us) : d[us[k]] # <<>>

\* C28: a turn of wait_startup returns None when every given uid has a
\* heartbeat; when it returns otherwise, it returns the given uids without
\* one, in the given order; with a timeout, it returns once the time is over;
\* without one, it returns only when every uid has a heartbeat.
C28_WaitStartup ==
    [][ (spc = "check" /\ spc' # "check")
        => /\ AllSeen(s_uids, tstamps)
              => spc' = "done" /\ s_result' = <<>>
           /\ (spc' = "done" /\ ~AllSeen(s_uids, tstamps))
              => s_result'
                   = << SelectSeq(s_uids, LAMBDA u : tstamps[u] = <<>>) >>
           /\ (s_timeout # <<>> /\ hclock - s_start > s_timeout[1])
              => spc' = "done"
           /\ (s_timeout = <<>> /\ ~AllSeen(s_uids, tstamps))
              => spc' = "sleep" ]_vars


\* ===========================================================================
\* Part 6: the module ids (ids.py): the registry of counters, generate_id and
\* reset_id_counters, called by up to MaxThreads threads.  A thread is
\* switched between two statements; a thread that wants the lock waits.
\* ===========================================================================

\* the prefix arguments, as their characters
PrefixArgs == { << "i" >>, << "t" >>, << "i", "%" >> }

\* the modes: ID_SIMPLE, ID_UNIQUE, ID_UUID
IdModes == { "simple", "unique", "uiud" }

\* prefix.replace('%', '')
CounterKey(prefix) == SelectSeq(prefix, LAMBDA c : c # "%")

\* '%(counter)' in template
HasCounter(mode) == mode \in { "simple", "unique" }

\* '%04d' % n
Fmt04(n) == IF n < 10000 THEN FixChars(n, 4) ELSE DecChars(n)

\* TEMPLATE_SIMPLE % info
SimpleId(prefix, counter) == prefix \o << "." >> \o Fmt04(counter)

\* the calls: generate_id(prefix, mode), reset_id_counters(prefix,
\* reset_all_others) with a prefix or a list of prefixes
GenCalls == [ op : { "generate_id" }, prefix : PrefixArgs, mode : IdModes ]
ResetCalls ==
    [ op : { "reset_id_counters" },
      todo : { << p >> : p \in PrefixArgs } \cup { << << "i" >>, << "t" >> >> },
      others : BOOLEAN ]

InitIds ==
    /\ CombineIdle
    /\ ProfilerIdle
    /\ ReaderIdle
    /\ EnvIdle
    /\ HbIdle
    /\ IdIdle
    /\ LockIdle

\* what no action of Part 6 changes
IdRest == UNCHANGED << combineVars, profilerVars, readerVars, envVars, hbVars,
                       lockVars >>

\* generate_id begins; without a counter in its template it returns at once
CallGenerate(t) ==
    /\ ipc[t] = "idle"
    /\ ncalls < MaxIdCalls
    /\ ncalls' = ncalls + 1
    /\ \E c \in GenCalls :
         /\ icall' = [ icall EXCEPT ![t] = c ]
         /\ ipc' = [ ipc EXCEPT
                       ![t] = IF HasCounter(c.mode) THEN "lock" ELSE "idle" ]
    /\ UNCHANGED << registry, rlock, iret, served, ids, resets >>
    /\ IdRest

\* reset_id_counters begins
CallReset(t) ==
    /\ ipc[t] = "idle"
    /\ ncalls < MaxIdCalls
    /\ ncalls' = ncalls + 1
    /\ resets' = resets + 1
    /\ \E c \in ResetCalls : icall' = [ icall EXCEPT ![t] = c ]
    /\ ipc' = [ ipc EXCEPT ![t] = "lock" ]
    /\ UNCHANGED << registry, rlock, iret, served, ids >>
    /\ IdRest

\* no lock at all
MayEnterAlways(owner, t) == TRUE

\* the RLock lets a thread in if it is free (get_counter and reset_counter do
\* not enter it twice)
MayEnter(owner, t) == owner = 0 \/ owner = t

\* `with self._rlock`: the thread gets the lock
Acquire(t) ==
    /\ ipc[t] = "lock"
    /\ MayEnter(rlock, t)
    /\ rlock' = t
    /\ ipc' = [ ipc EXCEPT
                  ![t] = IF icall[t].op = "generate_id" THEN "read"
                         ELSE "reset" ]
    /\ UNCHANGED << registry, icall, iret, served, ids, resets, ncalls >>
    /\ IdRest

\* get_counter: the counter is created if missing, `ret = registry[prefix]`
GetRead(t) ==
    /\ ipc[t] = "read"
    /\ LET k   == CounterKey(icall[t].prefix)
           cnt == IF registry[k] = <<>> THEN 0 ELSE registry[k][1]
       IN  /\ registry' = [ registry EXCEPT ![k] = << cnt >> ]
           /\ iret' = [ iret EXCEPT ![t] = cnt ]
           /\ served' = Append(served, << k, cnt >>)
    /\ ipc' = [ ipc EXCEPT ![t] = "incr" ]
    /\ UNCHANGED << rlock, icall, ids, resets, ncalls >>
    /\ IdRest

\* get_counter: `registry[prefix] += 1`
GetIncr(t) ==
    /\ ipc[t] = "incr"
    /\ LET k   == CounterKey(icall[t].prefix)
           cnt == IF registry[k] = <<>> THEN 0 ELSE registry[k][1]
       IN  registry' = [ registry EXCEPT ![k] = << cnt + 1 >> ]
    /\ ipc' = [ ipc EXCEPT ![t] = "return" ]
    /\ UNCHANGED << rlock, icall, iret, served, ids, resets, ncalls >>
    /\ IdRest

\* get_counter returns and releases the lock, generate_id formats its ID
GetReturn(t) ==
    /\ ipc[t] = "return"
    /\ rlock' = IF rlock = t THEN 0 ELSE rlock
    /\ ids' = IF icall[t].mode = "simple"
              THEN Append(ids, SimpleId(icall[t].prefix, iret[t]))
              ELSE ids
    /\ ipc' = [ ipc EXCEPT ![t] = "idle" ]
    /\ UNCHANGED << registry, icall, iret, served, resets, ncalls >>
    /\ IdRest

\* reset_counter(prefix, reset_all_others) under the lock
ResetCounter(reg, k, others) ==
    IF others
    THEN [ q \in IdKeys |-> IF q # k /\ reg[q] # <<>> THEN << 0 >> ELSE reg[q] ]
    ELSE [ reg EXCEPT ![k] = << 0 >> ]

\* reset_id_counters: reset_counter for the next prefix of the list, and the
\* release of the lock
ResetOne(t) ==
    /\ ipc[t] = "reset"
    /\ registry' = ResetCounter(registry, CounterKey(Head(icall[t].todo)),
                                icall[t].others)
    /\ rlock' = IF rlock = t THEN 0 ELSE rlock
    /\ icall' = [ icall EXCEPT ![t].todo = Tail(@) ]
    /\ ipc' = [ ipc EXCEPT
                  ![t] = IF Len(icall[t].todo) > 1 THEN "lock" ELSE "idle" ]
    /\ UNCHANGED << iret, served, ids, resets, ncalls >>
    /\ IdRest

NextIds ==
    \E t \in 1..MaxThreads :
        \/ CallGenerate(t)
        \/ CallReset(t)
        \/ Acquire(t)
        \/ GetRead(t)
        \/ GetIncr(t)
        \/ GetReturn(t)
        \/ ResetOne(t)

SpecIds == InitIds /\ [][NextIds]_vars

\* the values served for a key, in the order served
RECURSIVE ValuesOf(_, _)
ValuesOf(sv, k) ==
    IF sv = <<>> THEN <<>>
    ELSE IF Head(sv)[1] = k
         THEN << Head(sv)[2] >> \o ValuesOf(Tail(sv), k)
         ELSE ValuesOf(Tail(sv), k)

\* C29: under every interleaving of get_counter calls (no counter being
\* reset), the values served for one prefix are 0, 1, 2, ... in the order
\* served, hence pairwise distinct and without gap; and a step of get_counter
\* for one prefix leaves the counters of the other prefixes alone.
C29_CounterThreadSafe ==
    /\ [](resets = 0
          => \A k \in IdKeys :
               LET v == ValuesOf(served, k)
               IN  \A n \in 1..Len(v) : v[n] = n - 1)
    /\ [][ \A t \in 1..MaxThreads, k \in IdKeys :
             ( /\ ipc[t] \in { "read", "incr" }
               /\ ipc'[t] # ipc[t]
               /\ CounterKey(icall[t].prefix) # k )
             => registry'[k] = registry[k] ]_vars

\* a second value was served for a prefix to a thread that is still inside
\* get_counter, while another thread waits for the lock with a call for the
\* same prefix
C29_Witness ==
    /\ resets = 0
    /\ \E t, u \in 1..MaxThreads :
         /\ t # u
         /\ ipc[t] = "incr"
         /\ iret[t] = 1
         /\ ipc[u] = "lock"
         /\ icall[u].op = "generate_id"
         /\ CounterKey(icall[u].prefix) = CounterKey(icall[t].prefix)
         /\ Len(ValuesOf(served, CounterKey(icall[t].prefix))) = 2

\* C30: no two generate_id calls in ID_SIMPLE mode have returned the same ID.
C30_SimpleIdsDistinct ==
    \A m, n \in 1..Len(ids) : m # n => ids[m] # ids[n]


\* ===========================================================================
\* Part 7: the class decorator Lockable (lockable.py): locker and unlocker,
\* called as lock / __enter__ and unlock / __exit__ on the instances of one
\* decorated class by up to MaxThreads threads.  A thread is switched between
\* two statements and between the load and the store of `+=` and `-=`.
\* ===========================================================================

\* the calls: lock(), unlock(), and the two ends of a `with` block, which is
\* left normally or by an exception
LockCalls   == [ op : { "lock", "__enter__" }, inst : Insts, exc : { FALSE } ]
UnlockCalls ==
    [ op : { "unlock" }, inst : Insts, exc : { FALSE } ]
      \cup [ op : { "__exit__" }, inst : Insts, exc : BOOLEAN ]

InitLock ==
    /\ CombineIdle
    /\ ProfilerIdle
    /\ ReaderIdle
    /\ EnvIdle
    /\ HbIdle
    /\ IdIdle
    /\ LockIdle

\* what no action of Part 7 changes
LockRest == UNCHANGED << combineVars, profilerVars, readerVars, envVars,
                         hbVars, idVars >>

\* a.lock() or `with a:` begins
CallLocker(t) ==
    /\ lpc[t] = "idle"
    /\ lcalls < MaxLockCalls
    /\ lcalls' = lcalls + 1
    /\ \E c \in LockCalls : lcall' = [ lcall EXCEPT ![t] = c ]
    /\ lpc' = [ lpc EXCEPT ![t] = "acquire" ]
    /\ UNCHANGED << l_owner, l_depth, locked, held, ltmp, nlock, nunlock >>
    /\ LockRest

\* a.unlock() begins, or a `with a:` block is left
CallUnlocker(t) ==
    /\ lpc[t] = "idle"
    /\ lcalls < MaxLockCalls
    /\ lcalls' = lcalls + 1
    /\ \E c \in UnlockCalls : lcall' = [ lcall EXCEPT ![t] = c ]
    /\ lpc' = [ lpc EXCEPT ![t] = "release" ]
    /\ UNCHANGED << l_owner, l_depth, locked, held, ltmp, nlock, nunlock >>
    /\ LockRest

\* threading.RLock lets a thread in if it is free or the thread's own; the
\* lock is cls._rlock, one for all instances
RLockFree(owner, t) == owner = 0 \/ owner = t

\* locker: self._rlock.acquire()
LockerAcquire(t) ==
    /\ lpc[t] = "acquire"
    /\ RLockFree(l_owner, t)
    /\ l_owner' = t
    /\ l_depth' = l_depth + 1
    /\ held' = [ held EXCEPT ![lcall[t].inst] = @ + 1 ]
    /\ lpc' = [ lpc EXCEPT ![t] = "load_inc" ]
    /\ UNCHANGED << locked, lcall, ltmp, nlock, nunlock, lcalls >>
    /\ LockRest

\* locker: the load of `self.locked += 1`
LockerLoad(t) ==
    /\ lpc[t] = "load_inc"
    /\ ltmp' = [ ltmp EXCEPT ![t] = locked[lcall[t].inst] ]
    /\ lpc' = [ lpc EXCEPT ![t] = "store_inc" ]
    /\ UNCHANGED << l_owner, l_depth, locked, held, lcall, nlock, nunlock,
                    lcalls >>
    /\ LockRest

\* locker: the store of `self.locked += 1`, and the return
LockerStore(t) ==
    /\ lpc[t] = "store_inc"
    /\ locked' = [ locked EXCEPT ![lcall[t].inst] = ltmp[t] + 1 ]
    /\ nlock' = [ nlock EXCEPT ![lcall[t].inst] = @ + 1 ]
    /\ lpc' = [ lpc EXCEPT ![t] = "idle" ]
    /\ UNCHANGED << l_owner, l_depth, held, lcall, ltmp, nunlock, lcalls >>
    /\ LockRest

\* unlocker: self._rlock.release(), which raises RuntimeError for a thread
\* that does not own the lock
UnlockerRelease(t) ==
    /\ lpc[t] = "release"
    /\ IF l_owner = t
       THEN /\ l_depth' = l_depth - 1
            /\ l_owner' = IF l_depth = 1 THEN 0 ELSE t
            /\ held' = [ held EXCEPT ![lcall[t].inst] = @ - 1 ]
            /\ lpc' = [ lpc EXCEPT ![t] = "load_dec" ]
       ELSE /\ lpc' = [ lpc EXCEPT ![t] = "idle" ]
            /\ UNCHANGED << l_owner, l_depth, held >>
    /\ UNCHANGED << locked, lcall, ltmp, nlock, nunlock, lcalls >>
    /\ LockRest

\* unlocker: the load of `self.locked -= 1`
UnlockerLoad(t) ==
    /\ lpc[t] = "load_dec"
    /\ ltmp' = [ ltmp EXCEPT ![t] = locked[lcall[t].inst] ]
    /\ lpc' = [ lpc EXCEPT ![t] = "store_dec" ]
    /\ UNCHANGED << l_owner, l_depth, locked, held, lcall, nlock, nunlock,
                    lcalls >>
    /\ LockRest

\* unlocker: the store of `self.locked -= 1`, and the return
UnlockerStore(t) ==
    /\ lpc[t] = "store_dec"
    /\ locked' = [ locked EXCEPT ![lcall[t].inst] = ltmp[t] - 1 ]
    /\ nunlock' = [ nunlock EXCEPT ![lcall[t].inst] = @ + 1 ]
    /\ lpc' = [ lpc EXCEPT ![t] = "idle" ]
    /\ UNCHANGED << l_owner, l_depth, held, lcall, ltmp, nlock, lcalls >>
    /\ LockRest

NextLock ==
    \E t \in 1..MaxThreads :
        \/ CallLocker(t)
        \/ CallUnlocker(t)
        \/ LockerAcquire(t)
        \/ LockerLoad(t)
        \/ LockerStore(t)
        \/ UnlockerRelease(t)
        \/ UnlockerLoad(t)
        \/ UnlockerStore(t)

SpecLock == InitLock /\ [][NextLock]_vars

\* a thread is between the lock operation and the return of a call on the
\* instance
MidCall(o) ==
    \E t \in 1..MaxThreads :
        /\ lpc[t] \in { "load_inc", "store_inc", "load_dec", "store_dec" }
        /\ lcall[t].inst = o

\* C31: whenever no call on an instance is under way, its `locked` is the
\* number of its lock / __enter__ calls that returned minus the number of its
\* unlock / __exit__ calls that returned.
C31_LockedCountsLevels ==
    \A o \in Insts : ~MidCall(o) => locked[o] = nlock[o] - nunlock[o]

\* C32: a step of the watcher removes or replaces the timestamp of a uid only
\* if the timestamp it removes is older than the timeout at the watcher's
\* `now`: a beat recorded while the term_cb was handling the uid stays.
C32_BeatNotLost ==
    [][ \A u \in Uids :
          ( /\ wpc = "decide"
            /\ wpc' # "decide"
            /\ tstamps[u] # <<>>
            /\ tstamps'[u] # tstamps[u] )
          => w_now - tstamps[u][1] > hb_timeout ]_vars

\* the lock() or __enter__ call of the thread is kept waiting
Waits(t) == lpc[t] = "acquire" /\ ~RLockFree(l_owner, t)

\* C33: a lock() call on an instance is kept waiting only while another
\* thread holds a level of the lock taken through that same instance: the
\* lock held through instance a never blocks a call on instance b.
C33_InstancesIndependent ==
    \A t \in 1..MaxThreads : Waits(t) => held[lcall[t].inst] > 0

====
